---- MODULE Spec2Model ----
(***************************************************************************)
(* A model of the dependency crawler: the directory walk (crawlDeps,       *)
(* crawlDir, processFile), the per-file layer pipeline (processLayer,      *)
(* graphMethods), the teardown (freeCrawler, freeMethods) and the language *)
(* classifier (languageType).                                              *)
(*                                                                         *)
(* A C string is a sequence of one-character strings; the NULL pointer is  *)
(* the one-element sequence NULL, which no C string of the model equals.   *)
(***************************************************************************)
EXTENDS Integers, Sequences, FiniteSets, TLC

\* ------------------------------------------------------------------ bounds

\* Command-line roots handed to create_crawler.
MaxRoots == 2
\* Symbolic links the kernel follows while resolving one path before stat
\* fails with ELOOP.
MaxSymlinks == 1
\* malloc calls that may fail during one crawl.
MaxAllocFailures == 1

\* --------------------------------------------------------------- C strings

NULL == <<"NULL">>

Upper == <<"A", "B", "C", "D", "E", "F", "G", "H", "I", "J", "K", "L", "M",
           "N", "O", "P", "Q", "R", "S", "T", "U", "V", "W", "X", "Y", "Z">>

Lower == <<"a", "b", "c", "d", "e", "f", "g", "h", "i", "j", "k", "l", "m",
           "n", "o", "p", "q", "r", "s", "t", "u", "v", "w", "x", "y", "z">>

\* tolower(3) in the C locale.
tolower(ch) ==
    IF \E i \in 1..Len(Upper) : Upper[i] = ch
    THEN Lower[CHOOSE i \in 1..Len(Upper) : Upper[i] = ch]
    ELSE ch

\* strrchr(s, ch): the index of the last ch in s, 0 for a NULL result.
strrchr(s, ch) ==
    IF \E i \in 1..Len(s) : s[i] = ch
    THEN CHOOSE i \in 1..Len(s) : s[i] = ch /\ \A j \in (i + 1)..Len(s) : s[j] # ch
    ELSE 0

\* strchr(s, ch): the index of the first ch in s, 0 for a NULL result.
strchr(s, ch) ==
    IF \E i \in 1..Len(s) : s[i] = ch
    THEN CHOOSE i \in 1..Len(s) : s[i] = ch /\ \A j \in 1..(i - 1) : s[j] # ch
    ELSE 0

\* The string a pointer into s at index i (1-based) points to.
StrFrom(s, i) == SubSeq(s, i, Len(s))

\* strcmp(a, b) == 0
strcmp0(a, b) == a = b

\* strcasecmp(a, b) == 0
strcasecmp0(a, b) ==
    /\ Len(a) = Len(b)
    /\ \A i \in 1..Len(a) : tolower(a[i]) = tolower(b[i])

\* snprintf(full_path, sizeof(full_path), "%s/%s", path, name)
JoinPath(path, name) == path \o <<"/">> \o name

\* ------------------------------------------------------------ file system

\* Names of the modelled tree.
N_p == <<"p">>
N_a_c == <<"a", ".", "c">>
N_d_JSON == <<"d", ".", "J", "S", "O", "N">>
N_hidden == <<".", "g", ".", "c">>
N_dist == <<"d", "i", "s", "t">>
N_z_c == <<"z", ".", "c">>
N_s == <<"s">>
N_b_py == <<"b", ".", "p", "y">>
N_e_h == <<"e", ".", "h">>
N_M == <<"M">>
N_dot == <<".">>
N_c == <<"c">>
N_l == <<"l">>
N_u_c == <<"u", ".", "c">>
N_k == <<"k">>
N_q == <<"q">>
N_w_c == <<"w", ".", "c">>
N_f == <<"f">>
N_nx == <<"n", "x">>

NoInode == 0 - 1

Entry(name, ino, symlink) == [name |-> name, ino |-> ino, symlink |-> symlink]

Inode(kind, readable, entries, content) ==
    [kind |-> kind, readable |-> readable, entries |-> entries, content |-> content]

Inodes == 0..15

\* The tree the crawl walks, seen from the working directory (inode 0):
\*   p/            a project directory
\*   p/a.c         a C file with two imports, a structure and methods
\*   p/d.JSON      a data file
\*   p/.g.c        a hidden file
\*   p/dist/z.c    a file below a denylisted directory
\*   p/s/b.py      a Python file with one import and one method
\*   p/s/e.h       a header in which the extractors find nothing
\*   p/s/M         a source file whose name has no extension
\*   p/c/l         a symbolic link to p/c (a cycle)
\*   p/u.c         a file fopen cannot open
\*   p/k           a dangling symbolic link (stat fails)
\*   p/q/w.c       a file below a directory opendir cannot open
\*   p/f           a FIFO (neither regular file nor directory)
FS ==
    [i \in Inodes |->
        CASE i = 0 -> Inode("dir", TRUE, <<Entry(N_p, 1, FALSE)>>, "")
          [] i = 1 -> Inode("dir", TRUE,
                            <<Entry(N_a_c, 2, FALSE), Entry(N_d_JSON, 3, FALSE),
                              Entry(N_hidden, 4, FALSE), Entry(N_dist, 5, FALSE),
                              Entry(N_k, NoInode, TRUE), Entry(N_s, 7, FALSE),
                              Entry(N_u_c, 9, FALSE), Entry(N_q, 11, FALSE),
                              Entry(N_f, 12, FALSE), Entry(N_c, 10, FALSE)>>, "")
          [] i = 2 -> Inode("reg", TRUE, <<>>, "A")
          [] i = 3 -> Inode("reg", TRUE, <<>>, "J")
          [] i = 4 -> Inode("reg", TRUE, <<>>, "G")
          [] i = 5 -> Inode("dir", TRUE, <<Entry(N_z_c, 6, FALSE)>>, "")
          [] i = 6 -> Inode("reg", TRUE, <<>>, "Z")
          [] i = 7 -> Inode("dir", TRUE,
                            <<Entry(N_b_py, 8, FALSE), Entry(N_e_h, 14, FALSE),
                              Entry(N_M, 15, FALSE)>>, "")
          [] i = 8 -> Inode("reg", TRUE, <<>>, "B")
          [] i = 9 -> Inode("reg", FALSE, <<>>, "U")
          [] i = 10 -> Inode("dir", TRUE, <<Entry(N_l, 10, TRUE)>>, "")
          [] i = 11 -> Inode("dir", FALSE, <<Entry(N_w_c, 13, FALSE)>>, "")
          [] i = 12 -> Inode("fifo", TRUE, <<>>, "")
          [] i = 13 -> Inode("reg", TRUE, <<>>, "W")
          [] i = 14 -> Inode("reg", TRUE, <<>>, "E")
          [] i = 15 -> Inode("reg", TRUE, <<>>, "M")]

StatFail == [ok |-> FALSE, ino |-> NoInode, links |-> 0]

\* Path resolution from directory ino, following symbolic links; more than
\* MaxSymlinks links in one path fail with ELOOP.
RECURSIVE Lookup(_, _, _)
Lookup(ino, path, links) ==
    IF ino = NoInode \/ links > MaxSymlinks THEN StatFail
    ELSE IF path = <<>> THEN [ok |-> TRUE, ino |-> ino, links |-> links]
    ELSE LET k == strchr(path, "/")
             name == IF k = 0 THEN path ELSE SubSeq(path, 1, k - 1)
             rest == IF k = 0 THEN <<>> ELSE StrFrom(path, k + 1)
             dir == FS[ino]
         IN  IF dir.kind # "dir" THEN StatFail
             ELSE IF name = <<>> \/ name = <<".">> THEN Lookup(ino, rest, links)
             ELSE IF \E j \in 1..Len(dir.entries) : dir.entries[j].name = name
             THEN LET e == dir.entries[CHOOSE j \in 1..Len(dir.entries) :
                                          dir.entries[j].name = name]
                  IN  Lookup(e.ino, rest, links + (IF e.symlink THEN 1 ELSE 0))
             ELSE StatFail

\* stat(path, &path_stat): the inode the path names, if any.
stat(path) == Lookup(0, path, 0)

S_ISREG(st) == st.ok /\ FS[st.ino].kind = "reg"
S_ISDIR(st) == st.ok /\ FS[st.ino].kind = "dir"

\* opendir(path) != NULL, for a path stat found to be a directory.
opendir_ok(path) == LET st == stat(path) IN st.ok /\ FS[st.ino].readable

\* fopen(file_path, "r") != NULL
fopen_ok(path) == LET st == stat(path) IN st.ok /\ FS[st.ino].readable

\* The names readdir returns for the open directory, in stream order.
readdir_names(path) ==
    LET es == FS[stat(path).ino].entries IN [j \in 1..Len(es) |-> es[j].name]

\* ------------------------------------------------------------- extractors

\* A Method as the method extractor returns it: param_count parameters,
\* reference_count back-reference entries, and its child methods.
Method(param_count, reference_count, children) ==
    [param_count |-> param_count, reference_count |-> reference_count,
     children |-> children]

\* A Structure as the structure extractor returns it.
Structure(name, dependencies) == [name |-> name, dependencies |-> dependencies]

\* What the three extractors find in each file text of the tree.
Extraction(modules, structures, methods) ==
    [modules |-> modules, structures |-> structures, methods |-> methods]

Contents ==
    [c \in {"A", "B", "J", "G", "Z", "U", "W", "E", "M"} |->
        CASE c = "A" -> Extraction(<<<<"B">>, <<"x">>>>,
                                   <<Structure(<<"S">>, <<"B">>)>>,
                                   <<Method(1, 1, <<Method(1, 1, <<Method(0, 0, <<>>)>>)>>),
                                     Method(0, 0, <<>>)>>)
          [] c = "B" -> Extraction(<<<<"y">>>>, <<>>, <<Method(1, 0, <<>>)>>)
          [] c = "E" -> Extraction(<<>>, <<>>, <<>>)
          [] OTHER -> Extraction(<<<<"o">>>>, <<>>, <<Method(0, 0, <<>>)>>)]

\* analyzeModule(content, grammar): one record per import, in line order.
analyzeModule(content) ==
    LET ts == Contents[content].modules
    IN  [k \in 1..Len(ts) |-> [file_path |-> NULL, target |-> ts[k]]]

\* analyze_structure(content, filepath, grammar)
analyze_structure(content, filepath) == Contents[content].structures

\* analyzeMethod(filepath, content, grammar)
analyzeMethod(filepath, content) == Contents[content].methods

\* The methods field of a node or record that holds no Method sequence.
NoMethods == [ext |-> 0, shape |-> <<>>]

\* ------------------------------------------------------------ the graph

\* memset(temp_dep, 0, ...) followed by the assignments of the caller.
ExtractedDependency(file_path, target, layer) ==
    [file_path |-> file_path, target |-> target, layer |-> layer,
     methods |-> NoMethods]

Dependency(id, source, target, level, methods) ==
    [id |-> id, source |-> source, target |-> target, level |-> level,
     methods |-> methods]

\* create_dependency_from_extracted(extracted): a new node copying the
\* record's file path, target and layer.
create_dependency_from_extracted(extracted, id) ==
    Dependency(id, extracted.file_path, extracted.target, extracted.layer,
               extracted.methods)

\* graphDependency(graph, extracted): the callee receives the head pointer
\* by value and returns nothing, so the new node is linked behind the head:
\* right after it, or at the tail.
graphDependency(graph, extracted, id, link) ==
    LET node == create_dependency_from_extracted(extracted, id)
    IN  IF link = "after_head"
        THEN <<Head(graph), node>> \o Tail(graph)
        ELSE Append(graph, node)

\* One entry of the crawl's history: what was done, under which root (its
\* index), to which path, and the node or Method sequence it concerns.
\* For a merge it also holds what the merge did to the list: the head before
\* it (0 for an empty graph), the head after it and that head's successor.
LogEntry(op, root, path, layer, target, id) ==
    [op |-> op, root |-> root, path |-> path, layer |-> layer,
     target |-> target, id |-> id, prev |-> 0, head |-> 0, next |-> 0]

HeadId(graph) == IF graph = <<>> THEN 0 ELSE graph[1].id

Observed(e, before, after) ==
    [e EXCEPT !.prev = HeadId(before), !.head = HeadId(after),
              !.next = IF Len(after) > 1 THEN after[2].id ELSE 0]

\* ------------------------------------------------------------ allocations

\* An allocation: what it is, the node or Method sequence it belongs to,
\* the place of its Method in that sequence, and its index there.
Alloc(kind, owner, addr, idx) == <<kind, owner, addr, idx>>

\* The frees of a Method's parameter strings, crawler.c 618-622 and
\* syntaxes.c 265-269.
RECURSIVE FreeParameterStrings(_, _, _, _)
FreeParameterStrings(ext, addr, j, param_count) ==
    IF j > param_count THEN <<>>
    ELSE <<Alloc("parameter.name", ext, addr, j), Alloc("parameter.type", ext, addr, j),
           Alloc("parameter.default_value", ext, addr, j)>>
         \o FreeParameterStrings(ext, addr, j + 1, param_count)

\* The frees of a Method's back-reference list, crawler.c 609-615.
RECURSIVE FreeReferences(_, _, _, _)
FreeReferences(ext, addr, j, reference_count) ==
    IF j > reference_count THEN <<>>
    ELSE <<Alloc("reference.called_in", ext, addr, j), Alloc("reference", ext, addr, j)>>
         \o FreeReferences(ext, addr, j + 1, reference_count)

\* freeMethods(methods), syntaxes.c 256-278, over the sibling list whose
\* k-th Method lies at addr \o <<k>>.
RECURSIVE freeMethods(_, _, _, _)
freeMethods(ext, addr, methods, k) ==
    IF k > Len(methods) THEN <<>>
    ELSE LET a == Append(addr, k)
             m == methods[k]
         IN  <<Alloc("name", ext, a, 0), Alloc("return_type", ext, a, 0)>>
             \o FreeParameterStrings(ext, a, 1, m.param_count)
             \o <<Alloc("dependencies", ext, a, 0), Alloc("Method", ext, a, 0)>>
             \o freeMethods(ext, addr, methods, k + 1)

\* The loop of crawler.c 598-630 over a node's own Method list.
RECURSIVE FreeNodeMethods(_, _, _)
FreeNodeMethods(ext, methods, k) ==
    IF k > Len(methods) THEN <<>>
    ELSE LET a == <<k>>
             m == methods[k]
         IN  <<Alloc("name", ext, a, 0), Alloc("return_type", ext, a, 0),
               Alloc("dependencies", ext, a, 0), Alloc("defined_in", ext, a, 0)>>
             \o FreeReferences(ext, a, 1, m.reference_count)
             \o FreeParameterStrings(ext, a, 1, m.param_count)
             \o (IF m.param_count > 0 THEN <<Alloc("parameters", ext, a, 0)>> ELSE <<>>)
             \o freeMethods(ext, a, m.children, 1)
             \o <<Alloc("Method", ext, a, 0)>>
             \o FreeNodeMethods(ext, methods, k + 1)

\* The loop of crawler.c 588-635 over the graph.
RECURSIVE FreeGraph(_, _)
FreeGraph(graph, k) ==
    IF k > Len(graph) THEN <<>>
    ELSE LET n == graph[k]
         IN  <<Alloc("source", n.id, <<>>, 0)>>
             \o (IF n.target # NULL THEN <<Alloc("target", n.id, <<>>, 0)>> ELSE <<>>)
             \o (IF n.methods # NoMethods
                 THEN FreeNodeMethods(n.methods.ext, n.methods.shape, 1) ELSE <<>>)
             \o <<Alloc("Dependency", n.id, <<>>, 0)>>
             \o FreeGraph(graph, k + 1)

\* What a Method owns, syntaxes.h 78-95: itself, its strings, its back-
\* references, its parameters and their strings, and its children.
RECURSIVE MethodAllocations(_, _, _, _)
MethodAllocations(ext, addr, methods, k) ==
    IF k > Len(methods) THEN {}
    ELSE LET a == Append(addr, k)
             m == methods[k]
         IN  {Alloc("Method", ext, a, 0), Alloc("name", ext, a, 0),
              Alloc("return_type", ext, a, 0), Alloc("dependencies", ext, a, 0),
              Alloc("defined_in", ext, a, 0)}
             \cup {Alloc("reference", ext, a, j) : j \in 1..m.reference_count}
             \cup {Alloc("reference.called_in", ext, a, j) : j \in 1..m.reference_count}
             \cup (IF m.param_count > 0 THEN {Alloc("parameters", ext, a, 0)} ELSE {})
             \cup {Alloc("parameter.name", ext, a, j) : j \in 1..m.param_count}
             \cup {Alloc("parameter.type", ext, a, j) : j \in 1..m.param_count}
             \cup {Alloc("parameter.default_value", ext, a, j) : j \in 1..m.param_count}
             \cup MethodAllocations(ext, a, m.children, 1)
             \cup MethodAllocations(ext, addr, methods, k + 1)

\* What a graph owns, syntaxes.h 122-130: each node, its source and target
\* strings and its Method sequence.
GraphAllocations(graph) ==
    UNION {
        LET n == graph[k]
        IN  {Alloc("Dependency", n.id, <<>>, 0), Alloc("source", n.id, <<>>, 0)}
            \cup (IF n.target # NULL THEN {Alloc("target", n.id, <<>>, 0)} ELSE {})
            \cup (IF n.methods # NoMethods
                  THEN MethodAllocations(n.methods.ext, <<>>, n.methods.shape, 1)
                  ELSE {})
        : k \in 1..Len(graph)}

\* ------------------------------------------------------------ languageType

\* sizeof(ext_lower), syntaxes.c 22
ExtLowerSize == 32

\* LanguageType, syntaxes.h 21-30
LanguageTypes ==
    {"LANG_RUST", "LANG_C", "LANG_JAVASCRIPT", "LANG_GO", "LANG_PYTHON", "LANG_JAVA",
     "LANG_PHP", "LANG_RUBY"}

\* syntaxes.c 28-51: the language of a lower-cased extension.
MatchExtension(ext_lower) ==
    IF strcmp0(ext_lower, <<"r", "s">>) THEN "LANG_RUST"
    ELSE IF \/ strcmp0(ext_lower, <<"c">>)
            \/ strcmp0(ext_lower, <<"h">>)
            \/ strcmp0(ext_lower, <<"c", "p", "p">>)
            \/ strcmp0(ext_lower, <<"h", "p", "p">>) THEN "LANG_C"
    ELSE IF \/ strcmp0(ext_lower, <<"j", "s">>)
            \/ strcmp0(ext_lower, <<"j", "s", "x">>)
            \/ strcmp0(ext_lower, <<"t", "s">>)
            \/ strcmp0(ext_lower, <<"t", "s", "x">>) THEN "LANG_JAVASCRIPT"
    ELSE IF strcmp0(ext_lower, <<"g", "o">>) THEN "LANG_GO"
    ELSE IF strcmp0(ext_lower, <<"p", "y">>) THEN "LANG_PYTHON"
    ELSE IF strcmp0(ext_lower, <<"j", "a", "v", "a">>) THEN "LANG_JAVA"
    ELSE IF strcmp0(ext_lower, <<"p", "h", "p">>) THEN "LANG_PHP"
    ELSE IF strcmp0(ext_lower, <<"r", "b">>) THEN "LANG_RUBY"
    ELSE "LANG_RUST"

\* languageType comparing the extension as it is written.
languageTypeCaseSensitive(filename) ==
    IF filename = NULL THEN "LANG_RUST"
    ELSE LET dot == strrchr(filename, ".")
         IN  IF dot = 0 THEN "LANG_RUST"
             ELSE MatchExtension(StrFrom(filename, dot + 1))

\* languageType, syntaxes.c 10-55
languageType(filename) ==
    IF filename = NULL THEN "LANG_RUST"
    ELSE LET dot == strrchr(filename, ".")
         IN  IF dot = 0 THEN "LANG_RUST"
             ELSE LET ext == StrFrom(filename, dot + 1)
                      n == IF Len(ext) < ExtLowerSize - 1 THEN Len(ext)
                           ELSE ExtLowerSize - 1
                      ext_lower == [i \in 1..n |-> tolower(ext[i])]
                  IN  MatchExtension(ext_lower)

\* ------------------------------------------------------------- the export

S_imports == <<"i", "m", "p", "o", "r", "t", "s">>
S_inherits == <<"i", "n", "h", "e", "r", "i", "t", "s">>
S_calls == <<"c", "a", "l", "l", "s">>

\* Relationship, syntaxes.h 160-165
Relationship(from, to, relationship_type, layer) ==
    [from |-> from, to |-> to, relationship_type |-> relationship_type, layer |-> layer]

\* syntaxes.c 121-128: the relationship of a record that names a module.
ModuleRelationships(dep) ==
    IF dep.module_name # NULL
    THEN <<Relationship(dep.file_path, dep.module_name, S_imports, "MODULE")>>
    ELSE <<>>

\* syntaxes.c 131-144: one relationship per Structure that has dependencies.
RECURSIVE StructureRelationships(_, _)
StructureRelationships(structures, k) ==
    IF k > Len(structures) THEN <<>>
    ELSE (IF structures[k].dependencies # NULL
          THEN <<Relationship(structures[k].name, structures[k].dependencies,
                              S_inherits, "STRUCT")>>
          ELSE <<>>)
         \o StructureRelationships(structures, k + 1)

\* MethodRelationships with the kind of the structure loop copied into it.
RECURSIVE MethodRelationshipsCopiedKind(_, _)
MethodRelationshipsCopiedKind(methods, k) ==
    IF k > Len(methods) THEN <<>>
    ELSE (IF methods[k].dependencies # NULL
          THEN <<Relationship(methods[k].name, methods[k].dependencies,
                              S_inherits, "METHOD")>>
          ELSE <<>>)
         \o MethodRelationshipsCopiedKind(methods, k + 1)

\* syntaxes.c 147-160: one relationship per Method that has dependencies.
RECURSIVE MethodRelationships(_, _)
MethodRelationships(methods, k) ==
    IF k > Len(methods) THEN <<>>
    ELSE (IF methods[k].dependencies # NULL
          THEN <<Relationship(methods[k].name, methods[k].dependencies,
                              S_calls, "METHOD")>>
          ELSE <<>>)
         \o MethodRelationships(methods, k + 1)

\* The loop of syntaxes.c 116-161 from the i-th record on.
RECURSIVE RelationshipsFrom(_, _)
RelationshipsFrom(ds, i) ==
    IF i > Len(ds) THEN <<>>
    ELSE ModuleRelationships(ds[i])
         \o StructureRelationships(ds[i].structures, 1)
         \o MethodRelationships(ds[i].methods, 1)
         \o RelationshipsFrom(ds, i + 1)

\* syntaxes.h 13
MAX_DEPENDENCIES == 64

\* syntaxes.c 112: the number of Relationship pointers the array has room for.
RelationshipCapacity(ds) == Len(ds) * MAX_DEPENDENCIES

\* No DependencyGraph: create_dependency_graph returned NULL.
NoGraph == [relationships |-> <<>>, null |-> TRUE]

\* create_dependency_graph(deps, dep_count), syntaxes.c 108-164
create_dependency_graph(ds) ==
    IF Len(ds) <= 0 THEN NoGraph
    ELSE [relationships |-> RelationshipsFrom(ds, 1), null |-> FALSE]

\* The literal parts of the formats of exportGraph, syntaxes.c 175-194.
DotHeader ==
    <<"d", "i", "g", "r", "a", "p", "h", " ", "D", "e", "p", "e", "n", "d", "e", "n",
      "c", "i", "e", "s", " ", "{", "\n">>

DotFooter ==
    <<"}", "\n">>

JsonHeader ==
    <<"{", "\n", " ", " ", "\"", "r", "e", "l", "a", "t", "i", "o", "n", "s", "h",
      "i", "p", "s", "\"", ":", " ", "[", "\n">>

JsonFooter ==
    <<" ", " ", "]", "\n", "}", "\n">>

JsonFrom ==
    <<" ", " ", " ", " ", " ", " ", "\"", "f", "r", "o", "m", "\"", ":", " ", "\"">>

JsonTo ==
    <<" ", " ", " ", " ", " ", " ", "\"", "t", "o", "\"", ":", " ", "\"">>

JsonType ==
    <<" ", " ", " ", " ", " ", " ", "\"", "t", "y", "p", "e", "\"", ":", " ", "\"">>

JsonLayer ==
    <<" ", " ", " ", " ", " ", " ", "\"", "l", "a", "y", "e", "r", "\"", ":", " ">>

\* The value of an AnalysisLayer printed with %d, syntaxes.h 37-41.
LayerDigit(layer) ==
    IF layer = "MODULE" THEN <<"0">> ELSE IF layer = "STRUCT" THEN <<"1">> ELSE <<"2">>

\* DotLines writing the endpoints of each relationship the other way round.
RECURSIVE DotLinesReversed(_, _)
DotLinesReversed(rels, i) ==
    IF i > Len(rels) THEN <<>>
    ELSE <<" ", " ", "\"">> \o rels[i].to \o <<"\"", " ", "-", ">", " ", "\"">>
         \o rels[i].from \o <<"\"", " ", "[", "l", "a", "b", "e", "l", "=", "\"">>
         \o rels[i].relationship_type \o <<"\"", "]", ";", "\n">>
         \o DotLinesReversed(rels, i + 1)

\* syntaxes.c 176-180: one line per relationship.
RECURSIVE DotLines(_, _)
DotLines(rels, i) ==
    IF i > Len(rels) THEN <<>>
    ELSE <<" ", " ", "\"">> \o rels[i].from \o <<"\"", " ", "-", ">", " ", "\"">>
         \o rels[i].to \o <<"\"", " ", "[", "l", "a", "b", "e", "l", "=", "\"">>
         \o rels[i].relationship_type \o <<"\"", "]", ";", "\n">>
         \o DotLines(rels, i + 1)

\* syntaxes.c 185-193: one object per relationship, a comma after each but
\* the last.
RECURSIVE JsonObjects(_, _)
JsonObjects(rels, i) ==
    IF i > Len(rels) THEN <<>>
    ELSE <<" ", " ", " ", " ", "{", "\n">>
         \o JsonFrom \o rels[i].from \o <<"\"", ",", "\n">>
         \o JsonTo \o rels[i].to \o <<"\"", ",", "\n">>
         \o JsonType \o rels[i].relationship_type \o <<"\"", ",", "\n">>
         \o JsonLayer \o LayerDigit(rels[i].layer) \o <<"\n">>
         \o <<" ", " ", " ", " ", "}">>
         \o (IF i < Len(rels) THEN <<",">> ELSE <<>>) \o <<"\n">>
         \o JsonObjects(rels, i + 1)

\* exportGraph(graph, format, output_path), syntaxes.c 167-198, for a path
\* fopen can write: what the file holds afterwards.
exportGraph(graph, format) ==
    IF graph.null THEN [by |-> "none", text |-> <<>>]
    ELSE IF format = "dot"
    THEN [by |-> "dot", text |-> DotHeader \o DotLines(graph.relationships, 1) \o DotFooter]
    ELSE IF format = "json"
    THEN [by |-> "json",
          text |-> JsonHeader \o JsonObjects(graph.relationships, 1) \o JsonFooter]
    ELSE [by |-> "empty_file", text |-> <<>>]

\* exportDeps(crawler, output_format), crawler.c 564-574: which view is
\* produced; "json" and "graphviz" only log that they are not implemented.
exportDeps(format) ==
    IF format = "json" THEN [by |-> "not_implemented", text |-> <<>>]
    ELSE IF format = "graphviz" THEN [by |-> "not_implemented", text |-> <<>>]
    ELSE [by |-> "printDependencies", text |-> <<>>]

\* ------------------------------------------------------------------ state

VARIABLES
    root_directories,   \* crawler->root_directories (directory_count is its length)
    analysis_config,    \* crawler->analysis_config
    graph_link,         \* where graphDependency links a node: "after_head" or "tail"
    dependency_graph,   \* crawler->dependency_graph: the nodes from the head on
    pc,                 \* "crawl", "crawled" (crawlDeps returned), "freed"
    root_i,             \* the loop index of crawlDeps (1-based)
    stack,              \* the crawlDir calls in progress, innermost first
    nextId,             \* the next fresh allocation id
    alloc_failures,     \* malloc calls that returned NULL so far
    log,                \* what the crawl has done, in order
    released,           \* the allocations handed to free, in order
    filename,           \* the argument of a languageType call
    lang_type,          \* what the call returned
    type_deps,          \* the module records a resolver pass scans
    curr_struct,        \* the Structure the pass works on
    process,            \* main: what create_crawler returned and the exit status
    output_format,      \* the format an export is asked for
    extracted_deps,     \* the records create_dependency_graph is given
    result_graph,       \* the relationships it made of them
    output,             \* what the export has written
    initialized,        \* the fields of the crawler that have been assigned
    accesses,           \* the fields a freeCrawler call of create_crawler read
    struct_dep          \* the Structure sequence of a STRUCT record (its structures)

vars == <<root_directories, analysis_config, graph_link, dependency_graph, pc,
          root_i, stack, nextId, alloc_failures, log, released, filename, lang_type,
          type_deps, curr_struct, process, output_format,
          extracted_deps, result_graph, output, initialized, accesses, struct_dep>>

\* ------------------------------------------------------------ processLayer

\* The part of the state one processFile call works on. returned: processLayer
\* has returned early; null: a malloc of this call returned NULL.
Work(graph, id, lg, root) ==
    [graph |-> graph, nextId |-> id, log |-> lg, root |-> root, mallocs |-> 0,
     returned |-> FALSE, null |-> FALSE, released |-> <<>>]

\* malloc: the fault-th malloc of one processFile call returns NULL.
MallocFails(w, fault) == w.mallocs + 1 = fault

Counted(w) == [w EXCEPT !.mallocs = @ + 1]

Logged(w, e) == [w EXCEPT !.log = Append(@, e)]

\* Failed with the return after the error message lost.
FailedWithoutReturn(w, path, layer) ==
    Logged([Counted(w) EXCEPT !.null = TRUE],
           LogEntry("malloc_failed", w.root, path, layer, NULL, 0))

\* A malloc returned NULL: the error is logged and the function returns
\* (crawler.c 116-120, 149-153, 275-279, 658-661).
Failed(w, path, layer) ==
    Logged([Counted(w) EXCEPT !.returned = TRUE, !.null = TRUE],
           LogEntry("malloc_failed", w.root, path, layer, NULL, 0))

\* MergeRecord with the test of line 129 lost: every record becomes the root.
MergeRecordReplacesRoot(w, extracted) ==
    LET id == w.nextId
        g == <<create_dependency_from_extracted(extracted, id)>>
    IN  Logged([w EXCEPT !.graph = g, !.nextId = id + 1],
               Observed(LogEntry("merge", w.root, extracted.file_path,
                                 extracted.layer, extracted.target, id),
                        w.graph, g))

\* crawler.c 129-135 and 202-208: the record becomes the root of an empty
\* graph, otherwise it is handed to graphDependency with the head.
MergeRecord(w, extracted) ==
    LET id == w.nextId
        g == IF w.graph = <<>>
             THEN <<create_dependency_from_extracted(extracted, id)>>
             ELSE graphDependency(w.graph, extracted, id, graph_link)
    IN  Logged([w EXCEPT !.graph = g, !.nextId = id + 1],
               Observed(LogEntry("merge", w.root, extracted.file_path,
                                 extracted.layer, extracted.target, id),
                        w.graph, g))

\* crawler.c 111-139: one transient record and one merge per module record.
RECURSIVE ModuleLoop(_, _, _, _, _)
ModuleLoop(w, filepath, deps, k, fault) ==
    IF k > Len(deps) THEN w
    ELSE IF MallocFails(w, fault) THEN Failed(w, filepath, "MODULE")
    ELSE LET temp_dep == ExtractedDependency(filepath, deps[k].target, "MODULE")
         IN  ModuleLoop(MergeRecord(Counted(w), temp_dep), filepath, deps, k + 1, fault)

\* crawler.c 106-141
ModuleLayer(w, filepath, content, fault) ==
    ModuleLoop(w, filepath, analyzeModule(content), 1, fault)

\* strstr(haystack, needle) != NULL
strstr(haystack, needle) ==
    \E i \in 1..(Len(haystack) + 1) :
        /\ i + Len(needle) - 1 <= Len(haystack)
        /\ SubSeq(haystack, i, i + Len(needle) - 1) = needle

\* crawler.c 179-194: the Structure's dependencies text after the stamp for
\* one matching record; when malloc(new_len) fails the text stays.
Stamp(st, dep, fails) ==
    IF fails THEN [st EXCEPT !.mallocs = @ + 1, !.null = TRUE]
    ELSE [st EXCEPT !.mallocs = @ + 1,
                    !.dependencies =
                        (IF dep.file_path # NULL THEN dep.file_path ELSE <<>>)
                        \o <<":">> \o st.dependencies]

\* ResolverPass without the strstr test of line 175: every record with a
\* target stamps the text.
RECURSIVE ResolverPassIgnoresStrstr(_, _, _, _)
ResolverPassIgnoresStrstr(st, deps, k, fault) ==
    IF k > Len(deps) THEN st
    ELSE IF deps[k].target # NULL /\ st.dependencies # NULL
    THEN ResolverPassIgnoresStrstr(Stamp(st, deps[k], st.mallocs + 1 = fault),
                                   deps, k + 1, fault)
    ELSE ResolverPassIgnoresStrstr(st, deps, k + 1, fault)

\* crawler.c 166-195: the pass over the module records for one Structure;
\* the fault-th malloc of the pass returns NULL.
RECURSIVE ResolverPass(_, _, _, _)
ResolverPass(st, deps, k, fault) ==
    IF k > Len(deps) THEN st
    ELSE IF /\ deps[k].target # NULL
            /\ st.dependencies # NULL
            /\ strstr(st.dependencies, deps[k].target)
    THEN ResolverPass(Stamp(st, deps[k], st.mallocs + 1 = fault), deps, k + 1, fault)
    ELSE ResolverPass(st, deps, k + 1, fault)

\* StructLayer with the test of line 146 lost: a record is merged for a file
\* without structures too.
StructLayerMergesEmpty(w, filepath, content, fault) ==
    IF MallocFails(w, fault) THEN Failed(w, filepath, "STRUCT")
    ELSE MergeRecord(Counted(w), ExtractedDependency(filepath, NULL, "STRUCT"))

\* crawler.c 160-199: the loop over the Structures of the file, each with
\* the module records analyzeModule returns anew; faults[k] is the malloc
\* that fails in the pass for the k-th Structure.
ResolveStructures(structures, deps, faults) ==
    [k \in 1..Len(structures) |-> ResolverPass(structures[k], deps, 1, faults[k])]

\* crawler.c 160-199 for the Structures of one file: the dependency texts
\* after the resolver loop, in the order of the Structures.
ResolvedTexts(structures, deps) ==
    LET given == [k \in 1..Len(structures) |->
                     [name |-> structures[k].name,
                      dependencies |-> structures[k].dependencies,
                      mallocs |-> 0, null |-> FALSE]]
        resolved == ResolveStructures(given, deps, [k \in 1..Len(structures) |-> 0])
    IN  [k \in 1..Len(structures) |-> resolved[k].dependencies]

\* StructLayer with a resolver that scans the module records only when the
\* module layer is analysed.
StructLayerSharesModules(w, filepath, content, fault) ==
    LET structs == analyze_structure(content, filepath)
        deps == IF analysis_config.analyzeModules THEN analyzeModule(content) ELSE <<>>
    IN  IF structs = <<>> THEN w
        ELSE IF MallocFails(w, fault) THEN Failed(w, filepath, "STRUCT")
        ELSE MergeRecord(Logged(Counted(w),
                                LogEntry("resolve", w.root, filepath, "STRUCT",
                                         ResolvedTexts(structs, deps), 0)),
                         ExtractedDependency(filepath, NULL, "STRUCT"))

\* crawler.c 143-212: the record is allocated, the resolver loop of 160-199
\* stamps the Structures' texts with the module records it extracts itself
\* (166), and the record is merged; the loop leaves the graph alone.
StructLayer(w, filepath, content, fault) ==
    LET structs == analyze_structure(content, filepath)
    IN  IF structs = <<>> THEN w
        ELSE IF MallocFails(w, fault) THEN Failed(w, filepath, "STRUCT")
        ELSE MergeRecord(Logged(Counted(w),
                                LogEntry("resolve", w.root, filepath, "STRUCT",
                                         ResolvedTexts(structs, analyzeModule(content)),
                                         0)),
                         ExtractedDependency(filepath, NULL, "STRUCT"))

\* graphMethods linking its node at the tail instead of the head.
graphMethodsAppends(w, file_path, methods, fault) ==
    IF MallocFails(w, fault) THEN Failed(w, file_path, "METHOD")
    ELSE LET id == w.nextId
             dep == Dependency(id, file_path, NULL, "METHOD", methods)
             w1 == Counted(w)
             g == Append(w.graph, dep)
         IN  Logged([w1 EXCEPT !.graph = g, !.nextId = id + 1],
                    Observed(LogEntry("graphMethods", w.root, file_path, "METHOD",
                                      NULL, id),
                             w.graph, g))

\* graphMethods with the assignment of line 665 lost: the level stays what
\* memset made it, LAYER_MODULE.
graphMethodsKeepsZeroLevel(w, file_path, methods, fault) ==
    IF methods.shape = <<>> THEN w
    ELSE IF MallocFails(w, fault) THEN Failed(w, file_path, "METHOD")
    ELSE LET id == w.nextId
             dep == Dependency(id, file_path, NULL, "MODULE", methods)
             w1 == Counted(w)
             g == <<dep>> \o w.graph
         IN  Logged([w1 EXCEPT !.graph = g, !.nextId = id + 1],
                    Observed(LogEntry("graphMethods", w.root, file_path, "METHOD",
                                      NULL, id),
                             w.graph, g))

\* graphMethods with the assignment of line 674 lost: the new head has no
\* successor.
graphMethodsLosesNext(w, file_path, methods, fault) ==
    IF methods.shape = <<>> THEN w
    ELSE IF MallocFails(w, fault) THEN Failed(w, file_path, "METHOD")
    ELSE LET id == w.nextId
             dep == Dependency(id, file_path, NULL, "METHOD", methods)
             w1 == Counted(w)
             g == <<dep>>
         IN  Logged([w1 EXCEPT !.graph = g, !.nextId = id + 1],
                    Observed(LogEntry("graphMethods", w.root, file_path, "METHOD",
                                      NULL, id),
                             w.graph, g))

\* graphMethods, crawler.c 651-680: a new METHOD node takes the Method
\* sequence and becomes the head.
graphMethods(w, file_path, methods, fault) ==
    IF methods.shape = <<>> THEN w
    ELSE IF MallocFails(w, fault) THEN Failed(w, file_path, "METHOD")
    ELSE LET id == w.nextId
             dep == Dependency(id, file_path, NULL, "METHOD", methods)
             w1 == Counted(w)
             g == <<dep>> \o w.graph
         IN  Logged([w1 EXCEPT !.graph = g, !.nextId = id + 1],
                    Observed(LogEntry("graphMethods", w.root, file_path, "METHOD",
                                      NULL, id),
                             w.graph, g))

\* MethodLayer releasing the Method sequence after it was handed over.
MethodLayerFreesMethods(w, filepath, content, fault) ==
    LET shape == analyzeMethod(filepath, content)
        ext == w.nextId
        w1 == Logged([w EXCEPT !.nextId = ext + 1],
                     LogEntry("analyzeMethod", w.root, filepath, "METHOD", NULL, ext))
        w2 == graphMethods(w1, filepath, [ext |-> ext, shape |-> shape], fault)
    IN  IF shape = <<>> THEN w
        ELSE [w2 EXCEPT !.released = @ \o freeMethods(ext, <<>>, shape, 1)]

\* crawler.c 215-225: the extracted Method sequence gets a fresh identity
\* and is handed to graphMethods; processLayer frees nothing of it.
MethodLayer(w, filepath, content, fault) ==
    LET shape == analyzeMethod(filepath, content)
        ext == w.nextId
        w1 == Logged([w EXCEPT !.nextId = ext + 1],
                     LogEntry("analyzeMethod", w.root, filepath, "METHOD", NULL, ext))
    IN  IF shape = <<>> THEN w
        ELSE graphMethods(w1, filepath, [ext |-> ext, shape |-> shape], fault)

\* processLayer analysing the methods before the modules and structures.
processLayerMethodsFirst(w, filepath, content, fault) ==
    LET w0 == Logged(w, LogEntry("processLayer", w.root, filepath, "", NULL, 0))
        w1 == IF analysis_config.analyzeMethods
              THEN MethodLayer(w0, filepath, content, fault) ELSE w0
        w2 == IF w1.returned THEN w1
              ELSE IF analysis_config.analyzeModules
              THEN ModuleLayer(w1, filepath, content, fault) ELSE w1
        w3 == IF w2.returned THEN w2
              ELSE IF analysis_config.analyze_structures
              THEN StructLayer(w2, filepath, content, fault) ELSE w2
    IN  w3

\* processLayer, crawler.c 96-228
processLayer(w, filepath, content, fault) ==
    LET w0 == Logged(w, LogEntry("processLayer", w.root, filepath, "", NULL, 0))
        w1 == IF analysis_config.analyzeModules
              THEN ModuleLayer(w0, filepath, content, fault) ELSE w0
        w2 == IF w1.returned THEN w1
              ELSE IF analysis_config.analyze_structures
              THEN StructLayer(w1, filepath, content, fault) ELSE w1
        w3 == IF w2.returned THEN w2
              ELSE IF analysis_config.analyzeMethods
              THEN MethodLayer(w2, filepath, content, fault) ELSE w2
    IN  w3

\* ------------------------------------------------------------- processFile

\* The extensions processFile refuses, crawler.c 243-253.
SkippedExtensions ==
    { <<"t", "x", "t">>, <<"m", "d">>, <<"j", "s", "o", "n">>, <<"y", "m", "l">>,
      <<"y", "a", "m", "l">>, <<"x", "m", "l">>, <<"c", "s", "v">>, <<"l", "o", "g">>,
      <<"L", "I", "C", "E", "N", "S", "E">>,
      <<"g", "i", "t", "i", "g", "n", "o", "r", "e">>, <<"l", "o", "c", "k">> }

\* SkipsFile comparing with strcmp instead of strcasecmp.
SkipsFileCaseSensitive(file_path) ==
    LET dot == strrchr(file_path, ".")
        ext == StrFrom(file_path, dot + 1)
    IN  \/ dot = 0
        \/ \E x \in SkippedExtensions : strcmp0(ext, x)

\* crawler.c 235-256: the file has no '.' or a refused extension.
SkipsFile(file_path) ==
    LET dot == strrchr(file_path, ".")
        ext == StrFrom(file_path, dot + 1)
    IN  \/ dot = 0
        \/ \E x \in SkippedExtensions : strcasecmp0(ext, x)

\* processFile, crawler.c 231-297
processFile(w, file_path, fault) ==
    IF SkipsFile(file_path) THEN w
    ELSE IF ~fopen_ok(file_path) THEN w
    ELSE LET w1 == Logged(w, LogEntry("fopen", w.root, file_path, "", NULL, 0))
         IN  IF MallocFails(w1, fault) THEN Failed(w1, file_path, "")
             ELSE processLayer(Counted(w1), file_path,
                               FS[stat(file_path).ino].content, fault)

\* ---------------------------------------------------------------- crawlDir

\* The directory names crawlDir refuses to walk, crawler.c 333-338.
SkippedDirectories ==
    { <<"n", "o", "d", "e", "_", "m", "o", "d", "u", "l", "e", "s">>,
      <<".", "g", "i", "t">>, <<"b", "u", "i", "l", "d">>, <<"d", "i", "s", "t">>,
      <<"t", "a", "r", "g", "e", "t">>, <<"v", "e", "n", "d", "o", "r">> }

\* crawler.c 330-338: the text after the last '/' of the path is refused.
SkipsDirectory(path) ==
    LET dir_name == StrFrom(path, strrchr(path, "/") + 1)
    IN  \E d \in SkippedDirectories : strcmp0(dir_name, d)

\* crawler.c 347-348
HiddenEntry(d_name) == d_name[1] = "." \/ strcmp0(d_name, <<".", ".">>)

\* A crawlDir call that returns having touched nothing but the call stack.
Returns(stk, lg) ==
    /\ stack' = stk
    /\ log' = lg
    /\ UNCHANGED <<dependency_graph, nextId, alloc_failures, released>>

\* StatFailed leaving the readdir loop of the caller as well.
StatFailedLeavesLoop(stk, lg) ==
    /\ stack' = IF stk = <<>> THEN stk ELSE Tail(stk)
    /\ log' = lg
    /\ UNCHANGED <<dependency_graph, nextId, alloc_failures, released>>

\* crawler.c 308-311: stat failed.
StatFailed(stk, lg) == Returns(stk, lg)

\* crawler.c 324-327: opendir failed.
OpenDirFailed(stk, lg) == Returns(stk, lg)

\* crawler.c 333-342: a refused directory is closed again.
DirectorySkipped(stk, lg) == Returns(stk, lg)

\* crawler.c 361-363: neither a regular file nor a directory.
NotRegularSkipped(stk, lg) == Returns(stk, lg)

\* The mallocs one processFile call may see fail.
FaultChoices(r, path, lg) ==
    IF alloc_failures < MaxAllocFailures
    THEN 0..processFile(Work(dependency_graph, nextId, lg, r), path, 0).mallocs
    ELSE {0}

\* crawler.c 314-318: a regular file is processed, then crawlDir returns.
FileProcessed(r, path, stk, lg) ==
    \E fault \in FaultChoices(r, path, lg) :
        LET w == processFile(Work(dependency_graph, nextId, lg, r), path, fault)
        IN  /\ dependency_graph' = w.graph
            /\ nextId' = w.nextId
            /\ log' = w.log
            /\ alloc_failures' = alloc_failures + (IF w.null THEN 1 ELSE 0)
            /\ released' = released \o w.released
            /\ stack' = stk

\* DirectoryEntered for a crawlDir that honours max_depth: a directory deeper
\* than max_depth below its root is not walked.
DirectoryEnteredWithinDepth(r, path, stk, lg) ==
    IF analysis_config.max_depth >= 0 /\ Len(stk) >= analysis_config.max_depth
    THEN /\ stack' = stk
         /\ log' = lg
         /\ UNCHANGED <<dependency_graph, nextId, alloc_failures, released>>
    ELSE /\ stack' = <<[path |-> path, names |-> readdir_names(path), pos |-> 1]>> \o stk
         /\ log' = Append(lg, LogEntry("walk", r, path, "", NULL, stat(path).ino))
         /\ UNCHANGED <<dependency_graph, nextId, alloc_failures, released>>

\* crawler.c 344-345: the readdir loop over the opened directory starts.
DirectoryEntered(r, path, stk, lg) ==
    /\ stack' = <<[path |-> path, names |-> readdir_names(path), pos |-> 1]>> \o stk
    /\ log' = Append(lg, LogEntry("walk", r, path, "", NULL, stat(path).ino))
    /\ UNCHANGED <<dependency_graph, nextId, alloc_failures, released>>

\* crawlDir(crawler, path), crawler.c 300-364, called with stk the calls in
\* progress; the recursion of line 357 continues in ReadDir.
crawlDir(r, path, stk) ==
    LET st == stat(path)
        lg == Append(log, LogEntry("crawlDir", r, path, "", NULL, 0))
    IN  IF ~st.ok THEN StatFailed(stk, lg)
        ELSE IF S_ISREG(st) THEN FileProcessed(r, path, stk, lg)
        ELSE IF S_ISDIR(st)
        THEN IF ~opendir_ok(path) THEN OpenDirFailed(stk, lg)
             ELSE IF SkipsDirectory(path) THEN DirectorySkipped(stk, lg)
             ELSE DirectoryEntered(r, path, stk, lg)
        ELSE NotRegularSkipped(stk, lg)

\* ------------------------------------------------------------ freeCrawler

\* crawler.c 581-584
FreeRoots ==
    [i \in 1..Len(root_directories) |-> Alloc("root_directory", 0, <<>>, i)]
    \o <<Alloc("root_directories", 0, <<>>, 0)>>

\* freeCrawler calling cleanPatternCache after the loop over the graph.
freeCrawlerFreesGraphFirst ==
    FreeRoots
    \o FreeGraph(dependency_graph, 1)
    \o <<Alloc("pattern_cache", 0, <<>>, 0)>>
    \o <<Alloc("crawler", 0, <<>>, 0)>>

\* freeCrawler(crawler), crawler.c 577-648: every free, in call order.
freeCrawlerFrees ==
    <<Alloc("pattern_cache", 0, <<>>, 0)>>
    \o FreeRoots
    \o FreeGraph(dependency_graph, 1)
    \o <<Alloc("crawler", 0, <<>>, 0)>>

\* ---------------------------------------------------------------- actions

\* The roots a command line may name: the project directory, its directory
\* dist written with a slash at the end ("p/dist/"), and a path that does
\* not exist.
RootNames == {N_p, JoinPath(JoinPath(N_p, N_dist), <<>>), N_nx}

\* The lists of at most MaxRoots different roots.
RootLists ==
    {l \in UNION {[1..n -> RootNames] : n \in 1..MaxRoots} :
        \A i, j \in 1..Len(l) : i # j => l[i] # l[j]}

\* main.c 10: the depth main passes when the command line names none.
DEFAULT_DEPTH == 0 - 1

AnalysisConfigs ==
    [analyzeModules : BOOLEAN, analyze_structures : BOOLEAN, analyzeMethods : BOOLEAN,
     max_depth : {DEFAULT_DEPTH}]

\* The configurations main builds (main.c 124-130): every layer analysed,
\* max_depth as the command line gives it.
Depths == {DEFAULT_DEPTH, 0, 1}

DepthConfigs ==
    [analyzeModules : {TRUE}, analyze_structures : {TRUE}, analyzeMethods : {TRUE},
     max_depth : Depths]

export_vars == <<output_format, extracted_deps, result_graph, output>>

field_vars == <<initialized, accesses>>

\* A field of the DependencyCrawler; index tells the elements of the array
\* root_directories apart.
Field(name, index) == [name |-> name, index |-> index]

\* The fields create_crawler has assigned when it returns a crawler with n
\* roots, crawler.c 37-75.
CrawlerFields(n) ==
    {Field(f, 0) : f \in {"root_directories", "directory_count", "analysis_config",
                          "parsers", "parser_count", "dependency_graph",
                          "result_graph"}}
    \cup {Field("root_directories[i]", i) : i \in 1..n}

\* create_crawler has returned the crawler.
FieldsCreated ==
    /\ initialized = CrawlerFields(Len(root_directories))
    /\ accesses = <<>>

\* Nothing has been exported.
NoExport ==
    /\ output_format = "terminal"
    /\ extracted_deps = <<>>
    /\ result_graph = NoGraph
    /\ output = [by |-> "none", text |-> <<>>]

\* main after create_crawler returned a crawler, main.c 132-135.
Created == [crawler |-> "created", failure |-> "none", status |-> "running"]

\* No resolver pass is at work.
NoStructure == [dependencies |-> NULL, given |-> NULL, mallocs |-> 0, null |-> FALSE]

\* No languageType call has returned.
NoLanguage == "none"

\* The crawler create_crawler returns, crawler.c 20-79.
Init ==
    /\ root_directories \in RootLists
    /\ analysis_config \in AnalysisConfigs
    /\ graph_link \in {"after_head", "tail"}
    /\ dependency_graph = <<>>
    /\ pc = "crawl"
    /\ root_i = 0
    /\ stack = <<>>
    /\ nextId = 1
    /\ alloc_failures = 0
    /\ log = <<>>
    /\ released = <<>>
    /\ filename = NULL
    /\ lang_type = NoLanguage
    /\ type_deps = <<>>
    /\ curr_struct = NoStructure
    /\ struct_dep = <<>>
    /\ process = Created
    /\ NoExport
    /\ FieldsCreated

fixed == <<root_directories, analysis_config, graph_link, filename, lang_type,
           type_deps, curr_struct, process, export_vars, field_vars, struct_dep>>

\* crawlDeps, crawler.c 374-381: the next root is handed to crawlDir.
CrawlRoot ==
    /\ pc = "crawl"
    /\ stack = <<>>
    /\ root_i < Len(root_directories)
    /\ root_i' = root_i + 1
    /\ crawlDir(root_i + 1, root_directories[root_i + 1], <<>>)
    /\ UNCHANGED <<fixed, pc>>

\* crawler.c 345-358: readdir returns an entry, which is skipped when hidden
\* and handed to crawlDir otherwise.
ReadDir ==
    /\ pc = "crawl"
    /\ stack # <<>>
    /\ Head(stack).pos <= Len(Head(stack).names)
    /\ LET f == Head(stack)
           d_name == f.names[f.pos]
           stk == <<[f EXCEPT !.pos = @ + 1]>> \o Tail(stack)
       IN  IF HiddenEntry(d_name)
           THEN /\ stack' = stk
                /\ UNCHANGED <<dependency_graph, nextId, alloc_failures, log, released>>
           ELSE crawlDir(root_i, JoinPath(f.path, d_name), stk)
    /\ UNCHANGED <<fixed, pc, root_i>>

\* crawler.c 345 and 360: readdir returns NULL, the directory is closed and
\* crawlDir returns.
CloseDir ==
    /\ pc = "crawl"
    /\ stack # <<>>
    /\ Head(stack).pos > Len(Head(stack).names)
    /\ stack' = Tail(stack)
    /\ UNCHANGED <<fixed, pc, root_i, dependency_graph, nextId, alloc_failures,
                   log, released>>

\* crawlDeps returns, crawler.c 382.
CrawlReturns ==
    /\ pc = "crawl"
    /\ stack = <<>>
    /\ root_i = Len(root_directories)
    /\ pc' = "crawled"
    /\ UNCHANGED <<fixed, root_i, stack, dependency_graph, nextId, alloc_failures,
                   log, released>>

\* freeCrawler(crawler), crawler.c 577-648.
FreeCrawler ==
    /\ pc = "crawled"
    /\ pc' = "freed"
    /\ released' = released \o freeCrawlerFrees
    /\ UNCHANGED <<fixed, root_i, stack, dependency_graph, nextId, alloc_failures, log>>

Next == CrawlRoot \/ ReadDir \/ CloseDir \/ CrawlReturns \/ FreeCrawler

Spec == Init /\ [][Next]_vars

\* ------------------------------------------------- crawls under a max_depth

\* The crawler create_crawler returns for a configuration of main.
InitDepth ==
    /\ root_directories \in RootLists
    /\ analysis_config \in DepthConfigs
    /\ graph_link \in {"after_head", "tail"}
    /\ dependency_graph = <<>>
    /\ pc = "crawl"
    /\ root_i = 0
    /\ stack = <<>>
    /\ nextId = 1
    /\ alloc_failures = 0
    /\ log = <<>>
    /\ released = <<>>
    /\ filename = NULL
    /\ lang_type = NoLanguage
    /\ type_deps = <<>>
    /\ curr_struct = NoStructure
    /\ struct_dep = <<>>
    /\ process = Created
    /\ NoExport
    /\ FieldsCreated

SpecDepth == InitDepth /\ [][Next]_vars

\* ------------------------------------------------ crawls of repeated roots

\* Command lines that name a file twice: the same root given twice, and a
\* root given together with a directory below it (main.c 89-93 copies the
\* arguments as they are).
RepeatedRoots == { <<N_p, N_p>>, <<N_p, JoinPath(N_p, N_s)>> }

InitRepeat ==
    /\ root_directories \in RepeatedRoots
    /\ analysis_config \in AnalysisConfigs
    /\ graph_link \in {"after_head", "tail"}
    /\ dependency_graph = <<>>
    /\ pc = "crawl"
    /\ root_i = 0
    /\ stack = <<>>
    /\ nextId = 1
    /\ alloc_failures = 0
    /\ log = <<>>
    /\ released = <<>>
    /\ filename = NULL
    /\ lang_type = NoLanguage
    /\ type_deps = <<>>
    /\ curr_struct = NoStructure
    /\ struct_dep = <<>>
    /\ process = Created
    /\ NoExport
    /\ FieldsCreated

SpecRepeat == InitRepeat /\ [][Next]_vars

\* ------------------------------------------- crawls of the current directory

\* Roots written with a '.': the root main takes when the command line
\* names none (main.c 95-98), and the project directory below it.
DottedRoots == { <<N_dot>>, <<JoinPath(N_dot, N_p)>> }

InitDotted ==
    /\ root_directories \in DottedRoots
    /\ analysis_config \in AnalysisConfigs
    /\ graph_link \in {"after_head", "tail"}
    /\ dependency_graph = <<>>
    /\ pc = "crawl"
    /\ root_i = 0
    /\ stack = <<>>
    /\ nextId = 1
    /\ alloc_failures = 0
    /\ log = <<>>
    /\ released = <<>>
    /\ filename = NULL
    /\ lang_type = NoLanguage
    /\ type_deps = <<>>
    /\ curr_struct = NoStructure
    /\ struct_dep = <<>>
    /\ process = Created
    /\ NoExport
    /\ FieldsCreated

SpecDotted == InitDotted /\ [][Next]_vars

\* ------------------------------------------------------------------ main

\* What may fail in create_crawler: the malloc of the crawler (23-27),
\* initPatternCache (31-35), the malloc of root_directories (37-42) and the
\* strdup of a root (63-68).
StartupFailures == {"crawler", "initPatternCache", "root_directories", "strdup"}

InitCreate ==
    /\ root_directories \in RootLists
    /\ analysis_config = [analyzeModules |-> TRUE, analyze_structures |-> TRUE,
                          analyzeMethods |-> TRUE, max_depth |-> DEFAULT_DEPTH]
    /\ graph_link \in {"after_head", "tail"}
    /\ dependency_graph = <<>>
    /\ pc = "create"
    /\ root_i = 0
    /\ stack = <<>>
    /\ nextId = 1
    /\ alloc_failures = 0
    /\ log = <<>>
    /\ released = <<>>
    /\ filename = NULL
    /\ lang_type = NoLanguage
    /\ type_deps = <<>>
    /\ curr_struct = NoStructure
    /\ struct_dep = <<>>
    /\ process = [crawler |-> "unset", failure |-> "none", status |-> "running"]
    /\ NoExport
    /\ initialized = {}
    /\ accesses = <<>>

\* create_crawler, crawler.c 20-79, succeeds: main goes on to the crawl.
CreateCrawler ==
    /\ pc = "create"
    /\ pc' = "crawl"
    /\ process' = Created
    /\ initialized' = CrawlerFields(Len(root_directories))
    /\ UNCHANGED <<root_directories, analysis_config, graph_link, dependency_graph,
                   root_i, stack, nextId, alloc_failures, log, released, filename,
                   lang_type, type_deps, curr_struct,
                   export_vars, accesses, struct_dep>>

\* create_crawler fails. After a failed malloc or initPatternCache it frees
\* what it has and returns NULL. After a failed strdup it calls freeCrawler
\* on a crawler whose parsers, dependency_graph, result_graph and remaining
\* root_directories were never set (crawler.c 63-68, 577-648): the call
\* returns, or the process dies in it.
CreateCrawlerFails ==
    /\ pc = "create"
    /\ \E f \in StartupFailures :
          \/ /\ process' = [crawler |-> "NULL", failure |-> f, status |-> "running"]
             /\ pc' = "create_failed"
             /\ released' = IF f = "crawler" THEN <<>>
                            ELSE IF f = "strdup"
                            THEN <<Alloc("pattern_cache", 0, <<>>, 0),
                                   Alloc("root_directories", 0, <<>>, 0),
                                   Alloc("crawler", 0, <<>>, 0)>>
                            ELSE <<Alloc("crawler", 0, <<>>, 0)>>
          \/ /\ f = "strdup"
             /\ process' = [crawler |-> "unset", failure |-> f, status |-> "SIGSEGV"]
             /\ pc' = "exited"
             /\ released' = <<Alloc("pattern_cache", 0, <<>>, 0)>>
    /\ UNCHANGED <<root_directories, analysis_config, graph_link, dependency_graph,
                   root_i, stack, nextId, alloc_failures, log, filename,
                   lang_type, type_deps, curr_struct,
                   export_vars, field_vars, struct_dep>>

\* MainFails for a main that does not test what create_crawler returned.
MainIgnoresFailure ==
    /\ pc = "create_failed"
    /\ pc' = "crawl"
    /\ UNCHANGED <<root_directories, analysis_config, graph_link, dependency_graph,
                   root_i, stack, nextId, alloc_failures, log, released, filename,
                   lang_type, type_deps, curr_struct, process,
                   export_vars, field_vars, struct_dep>>

\* main.c 136-140: no crawler, main returns 1.
MainFails ==
    /\ pc = "create_failed"
    /\ pc' = "exited"
    /\ process' = [process EXCEPT !.status = "1"]
    /\ UNCHANGED <<root_directories, analysis_config, graph_link, dependency_graph,
                   root_i, stack, nextId, alloc_failures, log, released, filename,
                   lang_type, type_deps, curr_struct,
                   export_vars, field_vars, struct_dep>>

\* main.c 159-163: after the teardown main returns 0.
MainReturns ==
    /\ pc = "freed"
    /\ process.status = "running"
    /\ pc' = "exited"
    /\ process' = [process EXCEPT !.status = "0"]
    /\ UNCHANGED <<root_directories, analysis_config, graph_link, dependency_graph,
                   root_i, stack, nextId, alloc_failures, log, released, filename,
                   lang_type, type_deps, curr_struct,
                   export_vars, field_vars, struct_dep>>

NextCreate ==
    \/ CreateCrawler
    \/ CreateCrawlerFails
    \/ MainFails
    \/ CrawlRoot
    \/ ReadDir
    \/ CloseDir
    \/ CrawlReturns
    \/ FreeCrawler
    \/ MainReturns

SpecCreate == InitCreate /\ [][NextCreate]_vars

\* ------------------------------------------- the root loop of create_crawler

\* The directories create_crawler may be given: paths, and NULL entries.
DirectoryLists == UNION {[1..n -> RootNames \cup {NULL}] : n \in 1..MaxRoots}

\* root_directories holds the argument directories, root_i the loop index.
InitCleanup ==
    /\ root_directories \in DirectoryLists
    /\ analysis_config = [analyzeModules |-> TRUE, analyze_structures |-> TRUE,
                          analyzeMethods |-> TRUE, max_depth |-> DEFAULT_DEPTH]
    /\ graph_link = "tail"
    /\ dependency_graph = <<>>
    /\ pc = "create"
    /\ root_i = 0
    /\ stack = <<>>
    /\ nextId = 1
    /\ alloc_failures = 0
    /\ log = <<>>
    /\ released = <<>>
    /\ filename = NULL
    /\ lang_type = NoLanguage
    /\ type_deps = <<>>
    /\ curr_struct = NoStructure
    /\ struct_dep = <<>>
    /\ process = [crawler |-> "unset", failure |-> "none", status |-> "running"]
    /\ NoExport
    /\ initialized = {}
    /\ accesses = <<>>

cleanup_frame ==
    <<root_directories, analysis_config, graph_link, dependency_graph, stack, nextId,
      alloc_failures, log, filename, lang_type, type_deps, curr_struct, export_vars,
      struct_dep>>

\* crawler.c 23-55: the crawler and the root array are allocated (malloc
\* leaves their bytes unset), directory_count and analysis_config assigned.
AllocateCrawler ==
    /\ pc = "create"
    /\ pc' = "copy_roots"
    /\ initialized' = {Field("root_directories", 0), Field("directory_count", 0),
                       Field("analysis_config", 0)}
    /\ UNCHANGED <<cleanup_frame, root_i, released, process, accesses>>

\* crawler.c 63 and 69: the root at the loop index is copied.
CopyRoot ==
    /\ pc = "copy_roots"
    /\ root_i < Len(root_directories)
    /\ root_directories[root_i + 1] # NULL
    /\ initialized' = initialized \cup {Field("root_directories[i]", root_i + 1)}
    /\ root_i' = root_i + 1
    /\ UNCHANGED <<cleanup_frame, pc, released, process, accesses>>

\* The fields freeCrawler reads of a crawler with n roots and nothing else
\* to free, crawler.c 581-637, in the order it reads them.
freeCrawlerReads(n) ==
    <<Field("directory_count", 0)>>
    \o [i \in 1..n |-> Field("root_directories[i]", i)]
    \o <<Field("root_directories", 0), Field("parsers", 0),
         Field("dependency_graph", 0), Field("result_graph", 0)>>

\* crawler.c 58-62 and 64-68: the directory at the loop index is NULL, or
\* its strdup failed; freeCrawler(crawler) is called and NULL returned. A
\* freeCrawler that reads a field nothing was assigned to frees or follows
\* whatever the bytes hold: it returns, or the process dies in it.
CopyRootFails ==
    /\ pc = "copy_roots"
    /\ root_i < Len(root_directories)
    /\ accesses' = freeCrawlerReads(Len(root_directories))
    /\ \E outcome \in (IF \A k \in 1..Len(accesses') : accesses'[k] \in initialized
                       THEN {"returned"} ELSE {"returned", "SIGSEGV"}) :
          IF outcome = "returned"
          THEN /\ pc' = "create_failed"
               /\ process' = [crawler |-> "NULL", failure |-> "strdup",
                              status |-> "running"]
               /\ released' = freeCrawlerFrees
          ELSE /\ pc' = "exited"
               /\ process' = [crawler |-> "unset", failure |-> "strdup",
                              status |-> "SIGSEGV"]
               /\ released' = <<Alloc("pattern_cache", 0, <<>>, 0)>>
    /\ UNCHANGED <<cleanup_frame, root_i, initialized>>

\* crawler.c 72-78: the remaining fields are assigned, the crawler returned.
CrawlerCreated ==
    /\ pc = "copy_roots"
    /\ root_i = Len(root_directories)
    /\ initialized' = initialized \cup {Field("parsers", 0), Field("parser_count", 0),
                                        Field("dependency_graph", 0),
                                        Field("result_graph", 0)}
    /\ pc' = "created"
    /\ process' = Created
    /\ UNCHANGED <<cleanup_frame, root_i, released, accesses>>

NextCleanup == AllocateCrawler \/ CopyRoot \/ CopyRootFails \/ CrawlerCreated

SpecCleanup == InitCleanup /\ [][NextCleanup]_vars

\* -------------------------------------------------------- export requests

MaxDeps == 2

N_A == <<"A">>
N_B == <<"B">>
N_m == <<"m">>

\* The formats a command line may ask for (main.c 69-72), the default among
\* them (main.c 11).
Formats == {"terminal", "json", "dot", "graphviz", "DOT", "xml"}

\* The records an extraction pass may hand to create_dependency_graph.
ExportRecords ==
    [file_path : {N_A},
     module_name : {NULL, N_B},
     structures : {<<>>, <<[name |-> N_A, dependencies |-> N_B]>>,
                   <<[name |-> N_A, dependencies |-> NULL],
                     [name |-> N_B, dependencies |-> N_A]>>},
     methods : {<<>>, <<[name |-> N_m, dependencies |-> N_B]>>,
                <<[name |-> N_m, dependencies |-> NULL]>>}]

InitExport ==
    /\ root_directories = <<N_p>>
    /\ analysis_config = [analyzeModules |-> TRUE, analyze_structures |-> TRUE,
                          analyzeMethods |-> TRUE, max_depth |-> DEFAULT_DEPTH]
    /\ graph_link = "tail"
    /\ dependency_graph = <<>>
    /\ pc = "export"
    /\ root_i = 0
    /\ stack = <<>>
    /\ nextId = 1
    /\ alloc_failures = 0
    /\ log = <<>>
    /\ released = <<>>
    /\ filename = NULL
    /\ lang_type = NoLanguage
    /\ type_deps = <<>>
    /\ curr_struct = NoStructure
    /\ struct_dep = <<>>
    /\ process = [crawler |-> "created", failure |-> "none", status |-> "running"]
    /\ output_format \in Formats
    /\ extracted_deps \in UNION {[1..n -> ExportRecords] : n \in 0..MaxDeps}
    /\ result_graph = NoGraph
    /\ output = [by |-> "none", text |-> <<>>]
    /\ FieldsCreated

export_frame ==
    <<root_directories, analysis_config, graph_link, dependency_graph, root_i, stack,
      nextId, alloc_failures, log, released, filename, lang_type, type_deps,
      curr_struct, process, output_format, extracted_deps, field_vars, struct_dep>>

\* main.c 152-156: the export of the crawler's dependencies.
ExportDeps ==
    /\ pc = "export"
    /\ output' = exportDeps(output_format)
    /\ pc' = "exported"
    /\ UNCHANGED <<export_frame, result_graph>>

\* The relationship graph is made of the records.
CreateDependencyGraph ==
    /\ pc = "export"
    /\ result_graph' = create_dependency_graph(extracted_deps)
    /\ pc' = "graphed"
    /\ UNCHANGED <<export_frame, output>>

\* The relationship graph is written in the format asked for.
ExportGraph ==
    /\ pc = "graphed"
    /\ output' = exportGraph(result_graph, output_format)
    /\ pc' = "graph_exported"
    /\ UNCHANGED <<export_frame, result_graph>>

NextExport == ExportDeps \/ CreateDependencyGraph \/ ExportGraph

SpecExport == InitExport /\ [][NextExport]_vars

\* ------------------------------------------------------- large extractions

\* n Methods, each with a dependency text.
MethodsWithDependencies(n) == [k \in 1..n |-> [name |-> N_m, dependencies |-> N_B]]

\* Records of files with few and with many methods.
LargeRecords ==
    [file_path : {N_A},
     module_name : {NULL, N_B},
     structures : {<<>>, <<[name |-> N_A, dependencies |-> N_B]>>},
     methods : {MethodsWithDependencies(n) :
                   n \in {0, MAX_DEPENDENCIES - 1, MAX_DEPENDENCIES,
                          MAX_DEPENDENCIES + 1}}]

InitLarge ==
    /\ root_directories = <<N_p>>
    /\ analysis_config = [analyzeModules |-> TRUE, analyze_structures |-> TRUE,
                          analyzeMethods |-> TRUE, max_depth |-> DEFAULT_DEPTH]
    /\ graph_link = "tail"
    /\ dependency_graph = <<>>
    /\ pc = "export"
    /\ root_i = 0
    /\ stack = <<>>
    /\ nextId = 1
    /\ alloc_failures = 0
    /\ log = <<>>
    /\ released = <<>>
    /\ filename = NULL
    /\ lang_type = NoLanguage
    /\ type_deps = <<>>
    /\ curr_struct = NoStructure
    /\ struct_dep = <<>>
    /\ process = [crawler |-> "created", failure |-> "none", status |-> "running"]
    /\ output_format = "dot"
    /\ extracted_deps \in UNION {[1..n -> LargeRecords] : n \in 0..MaxDeps}
    /\ result_graph = NoGraph
    /\ output = [by |-> "none", text |-> <<>>]
    /\ FieldsCreated

\* syntaxes.c 127, 140, 156: a store past the end of the array the function
\* allocated is undefined; besides returning as if nothing had happened
\* (CreateDependencyGraph) the call may end the process.
CreateDependencyGraphOverflows ==
    /\ pc = "export"
    /\ Len(RelationshipsFrom(extracted_deps, 1)) > RelationshipCapacity(extracted_deps)
    /\ pc' = "crashed"
    /\ UNCHANGED <<export_frame, result_graph, output>>

NextLarge == CreateDependencyGraph \/ CreateDependencyGraphOverflows

SpecLarge == InitLarge /\ [][NextLarge]_vars

\* ------------------------------------------------------ the resolver pass

MaxRecords == 2

N_Base == <<"B", "a", "s", "e">>
N_as == <<"a", "s">>
N_Q == <<"Q">>
N_a_e == <<"a", ".", "e">>

\* The module records of one file: each with the file's path, or none, and
\* a target, or none.
ModuleRecords ==
    [file_path : {NULL, N_a_e}, target : {NULL, N_Base, N_as, N_Q}]

InitResolve ==
    /\ root_directories = <<N_p>>
    /\ analysis_config = [analyzeModules |-> TRUE, analyze_structures |-> TRUE,
                          analyzeMethods |-> TRUE, max_depth |-> DEFAULT_DEPTH]
    /\ graph_link = "tail"
    /\ dependency_graph = <<>>
    /\ pc = "resolve"
    /\ root_i = 0
    /\ stack = <<>>
    /\ nextId = 1
    /\ alloc_failures = 0
    /\ log = <<>>
    /\ released = <<>>
    /\ filename = NULL
    /\ lang_type = NoLanguage
    /\ type_deps \in UNION {[1..n -> ModuleRecords] : n \in 0..MaxRecords}
    /\ \E d \in {NULL, N_Base, N_Q} :
          curr_struct = [dependencies |-> d, given |-> d, mallocs |-> 0, null |-> FALSE]
    /\ struct_dep = <<>>
    /\ process = Created
    /\ NoExport
    /\ FieldsCreated

\* crawler.c 166-195: the pass runs over the records for the Structure.
Resolve ==
    /\ pc = "resolve"
    /\ \E fault \in 0..Len(type_deps) :
          curr_struct' = ResolverPass(curr_struct, type_deps, 1, fault)
    /\ pc' = "resolved"
    /\ UNCHANGED <<root_directories, analysis_config, graph_link, dependency_graph,
                   root_i, stack, nextId, alloc_failures, log, released, filename,
                   lang_type, type_deps, process,
                   export_vars, field_vars, struct_dep>>

NextResolve == Resolve

SpecResolve == InitResolve /\ [][NextResolve]_vars

\* --------------------------------------- the resolver loop over a file

MaxStructs == 2

\* The Structures the structure extractor may return: a name, a Method
\* list (its identity), and a dependency text or none.
StructureRecords ==
    [name : {N_A, N_B}, methods : {0, 1}, dependencies : {NULL, N_Base, N_Q},
     mallocs : {0}, null : {FALSE}]

\* The module records of the file a.e.
FileRecords == [file_path : {N_a_e}, target : {NULL, N_Base, N_as, N_Q}]

InitStructures ==
    /\ root_directories = <<N_p>>
    /\ analysis_config = [analyzeModules |-> TRUE, analyze_structures |-> TRUE,
                          analyzeMethods |-> TRUE, max_depth |-> DEFAULT_DEPTH]
    /\ graph_link = "tail"
    /\ dependency_graph = <<>>
    /\ pc = "resolve_all"
    /\ root_i = 0
    /\ stack = <<>>
    /\ nextId = 1
    /\ alloc_failures = 0
    /\ log = <<>>
    /\ released = <<>>
    /\ filename = NULL
    /\ lang_type = NoLanguage
    /\ type_deps \in UNION {[1..n -> FileRecords] : n \in 0..MaxRecords}
    /\ curr_struct = NoStructure
    /\ struct_dep \in UNION {[1..n -> StructureRecords] : n \in 1..MaxStructs}
    /\ process = Created
    /\ NoExport
    /\ FieldsCreated

\* crawler.c 160-199: the resolver loop runs over the file's Structures.
ResolveAll ==
    /\ pc = "resolve_all"
    /\ \E faults \in [1..Len(struct_dep) -> 0..1] :
          struct_dep' = ResolveStructures(struct_dep, type_deps, faults)
    /\ pc' = "resolved_all"
    /\ UNCHANGED <<root_directories, analysis_config, graph_link, dependency_graph,
                   root_i, stack, nextId, alloc_failures, log, released, filename,
                   lang_type, type_deps, curr_struct, process,
                   export_vars, field_vars>>

NextStructures == ResolveAll

SpecStructures == InitStructures /\ [][NextStructures]_vars

\* --------------------------------------------------- calls of languageType

Stems == { <<"m">>, <<"a", ".", "b">>, <<"d", ".", "c", "/", "n">> }

Extensions ==
    {
      <<"r", "s">>, <<"R", "S">>, <<"R", "s">>, <<"r", "S">>, <<"c">>, <<"C">>,
      <<"h">>, <<"H">>, <<"c", "p", "p">>, <<"C", "P", "P">>, <<"C", "p", "p">>,
      <<"h", "p", "p">>, <<"H", "P", "P">>, <<"h", "P", "p">>, <<"j", "s">>,
      <<"J", "S">>, <<"J", "s">>, <<"j", "s", "x">>, <<"J", "S", "X">>,
      <<"j", "S", "x">>, <<"t", "s">>, <<"T", "S">>, <<"t", "s", "x">>,
      <<"T", "S", "X">>, <<"T", "s", "x">>, <<"g", "o">>, <<"G", "O">>, <<"G", "o">>,
      <<"p", "y">>, <<"P", "Y">>, <<"P", "y">>, <<"j", "a", "v", "a">>,
      <<"J", "A", "V", "A">>, <<"J", "a", "v", "a">>, <<"j", "a", "V", "A">>,
      <<"p", "h", "p">>, <<"P", "H", "P">>, <<"P", "h", "p">>, <<"r", "b">>,
      <<"R", "B">>, <<"r", "B">>, <<"t", "x", "t">>, <<"c", "c">>, <<"r">>, <<>>,
      <<"r", "s", "s">>, <<"j", "a", "v">>, <<"c", "s">>, <<"p", "y", "c">>,
      <<"R", "S", "X">>,
      <<"c", "c", "c", "c", "c", "c", "c", "c", "c", "c", "c", "c", "c", "c", "c", "c", "c", "c", "c", "c", "c", "c", "c", "c", "c", "c", "c", "c", "c", "c", "c">>,
      <<"c", "c", "c", "c", "c", "c", "c", "c", "c", "c", "c", "c", "c", "c", "c", "c", "c", "c", "c", "c", "c", "c", "c", "c", "c", "c", "c", "c", "c", "c", "c", "c">>,
      <<"r", "s", "s", "s", "s", "s", "s", "s", "s", "s", "s", "s", "s", "s", "s", "s", "s", "s", "s", "s", "s", "s", "s", "s", "s", "s", "s", "s", "s", "s", "s", "s", "s">>
    }

\* Names without a '.', or with none in the last component.
PlainNames ==
    { <<"M", "a", "k", "e", "f", "i", "l", "e">>, <<"m">>, <<"r", "s">>, <<"d", ".", "c", "/", "n">> }

FileNames ==
    {s \o <<".">> \o e : s \in Stems, e \in Extensions} \cup PlainNames \cup {NULL}

InitClassify ==
    /\ root_directories = <<N_p>>
    /\ analysis_config = [analyzeModules |-> TRUE, analyze_structures |-> TRUE,
                          analyzeMethods |-> TRUE, max_depth |-> DEFAULT_DEPTH]
    /\ graph_link = "tail"
    /\ dependency_graph = <<>>
    /\ pc = "classify"
    /\ root_i = 0
    /\ stack = <<>>
    /\ nextId = 1
    /\ alloc_failures = 0
    /\ log = <<>>
    /\ released = <<>>
    /\ filename \in FileNames
    /\ lang_type = NoLanguage
    /\ type_deps = <<>>
    /\ curr_struct = NoStructure
    /\ struct_dep = <<>>
    /\ process = Created
    /\ NoExport
    /\ FieldsCreated

\* lang_type = languageType(filename)
Classify ==
    /\ pc = "classify"
    /\ lang_type' = languageType(filename)
    /\ pc' = "classified"
    /\ UNCHANGED <<root_directories, analysis_config, graph_link, dependency_graph,
                   root_i, stack, nextId, alloc_failures, log, released, filename,
                   type_deps, curr_struct, process,
                   export_vars, field_vars, struct_dep>>

NextClassify == Classify

SpecClassify == InitClassify /\ [][NextClassify]_vars

\* ------------------------------------------------------------- properties

\* The places of the log where op was done.
Done(op) == {i \in 1..Len(log) : log[i].op = op}

Merges == Done("merge") \cup Done("graphMethods")

\* How often processLayer ran on file f.
TimesProcessed(f) == Cardinality({i \in Done("processLayer") : log[i].path = f})

\* The module records the extractor finds in file f.
ModuleRecordsOf(f) == analyzeModule(FS[stat(f).ino].content)

\* The places of the graph that hold a node of this level, source and target.
NodesWith(level, source, target) ==
    {k \in 1..Len(dependency_graph) :
        /\ dependency_graph[k].level = level
        /\ dependency_graph[k].source = source
        /\ dependency_graph[k].target = target}

NodesOfLevel(level) ==
    {k \in 1..Len(dependency_graph) : dependency_graph[k].level = level}

\* How often a is handed to free.
TimesReleased(a) == Cardinality({i \in 1..Len(released) : released[i] = a})

\* C1: as long as no allocation failed, the MODULE nodes of the graph are
\* exactly the module records of the files processed so far: every record
\* (file, target) of a processed file has one node per time the file was
\* processed, and there are as many MODULE nodes as records were merged,
\* whatever the order of the files.
C1_ModuleRecordsAllInGraph ==
    (alloc_failures = 0 /\ analysis_config.analyzeModules) =>
        /\ \A i \in Done("processLayer") :
             LET f == log[i].path
                 recs == ModuleRecordsOf(f)
             IN  \A k \in 1..Len(recs) :
                    Cardinality(NodesWith("MODULE", f, recs[k].target))
                      = TimesProcessed(f)
                        * Cardinality({j \in 1..Len(recs) : recs[j].target = recs[k].target})
        /\ Cardinality(NodesOfLevel("MODULE"))
             = Cardinality({ij \in Done("processLayer") \X (1..3) :
                              ij[2] <= Len(ModuleRecordsOf(log[ij[1]].path))})

\* C1 witness: a finished crawl that processed three distinct files, each
\* once, and merged the three module records two of them hold into the
\* empty graph.
C1_Witness ==
    /\ pc = "crawled"
    /\ alloc_failures = 0
    /\ analysis_config.analyzeModules
    /\ Cardinality(Done("processLayer")) = 3
    /\ \A i \in Done("processLayer") : TimesProcessed(log[i].path) = 1
    /\ Cardinality(NodesOfLevel("MODULE")) = 3

C3_TeardownReleasesAllOnce ==
    pc = "freed" =>
        \A a \in GraphAllocations(dependency_graph) : TimesReleased(a) = 1

\* C4: a Method sequence handed to graphMethods with success is owned by
\* exactly one node, the METHOD node made for its file; no other node holds
\* it, and nothing of it is released before the teardown.
C4_MethodsOwnedByOneNode ==
    \A i \in Done("analyzeMethod") :
        LET ext == log[i].id
            owners == {k \in 1..Len(dependency_graph) :
                          dependency_graph[k].methods.ext = ext}
        IN  /\ Cardinality(owners) <= 1
            /\ (i < Len(log) /\ log[i + 1].op = "graphMethods") =>
                  /\ Cardinality(owners) = 1
                  /\ \A k \in owners :
                        /\ dependency_graph[k].id = log[i + 1].id
                        /\ dependency_graph[k].level = "METHOD"
                        /\ dependency_graph[k].source = log[i].path
            /\ pc # "freed" => \A j \in 1..Len(released) : released[j][2] # ext

\* C4 witness: two files' Method sequences are in the graph and a record of
\* another layer was merged after one of them.
C4_Witness ==
    /\ Cardinality(NodesOfLevel("METHOD")) >= 2
    /\ \E i \in Done("graphMethods") : \E j \in Done("merge") : i < j

LowerStr(s) == [i \in 1..Len(s) |-> tolower(s[i])]

\* The visits of crawlDir and the files opened, as (root, path) pairs.
Pairs(entries) ==
    [i \in 1..Len(entries) |-> [root |-> entries[i].root, path |-> entries[i].path]]

\* A path the crawl cannot stat, a directory it cannot open, or a file it
\* tries to open and cannot.
FailingPath(path) ==
    LET st == stat(path)
    IN  \/ ~st.ok
        \/ S_ISDIR(st) /\ ~FS[st.ino].readable
        \/ S_ISREG(st) /\ ~SkipsFile(path) /\ ~FS[st.ino].readable

\* The walk below one path of a tree from which the failing paths are gone:
\* the path, then, for a directory that is walked, its entries in order.
RECURSIVE WalkWithoutFailing(_, _), EntriesWithoutFailing(_, _, _, _)
WalkWithoutFailing(r, path) ==
    IF FailingPath(path) THEN <<>>
    ELSE <<[root |-> r, path |-> path]>>
         \o (IF S_ISDIR(stat(path)) /\ ~SkipsDirectory(path)
             THEN EntriesWithoutFailing(r, path, readdir_names(path), 1)
             ELSE <<>>)

EntriesWithoutFailing(r, path, names, k) ==
    IF k > Len(names) THEN <<>>
    ELSE (IF HiddenEntry(names[k]) THEN <<>>
          ELSE WalkWithoutFailing(r, JoinPath(path, names[k])))
         \o EntriesWithoutFailing(r, path, names, k + 1)

RECURSIVE RootsWithoutFailing(_)
RootsWithoutFailing(r) ==
    IF r > Len(root_directories) THEN <<>>
    ELSE WalkWithoutFailing(r, root_directories[r]) \o RootsWithoutFailing(r + 1)

IsSoundVisit(e) == e.op = "crawlDir" /\ ~FailingPath(e.path)

IsOpen(e) == e.op = "fopen"

IsOpenable(v) == S_ISREG(stat(v.path)) /\ ~SkipsFile(v.path)

\* C5: a step that visits a failing path leaves the graph as it was, and the
\* finished crawl has visited the other paths, and opened the other files,
\* exactly as a crawl of the tree without the failing paths does.
C5_FailingPathsSkipped ==
    /\ [](pc = "crawled" =>
            /\ Pairs(SelectSeq(log, IsSoundVisit)) = RootsWithoutFailing(1)
            /\ Pairs(SelectSeq(log, IsOpen))
                 = SelectSeq(RootsWithoutFailing(1), IsOpenable))
    /\ [][(/\ Len(log') > Len(log)
           /\ log'[Len(log) + 1].op = "crawlDir"
           /\ FailingPath(log'[Len(log) + 1].path))
          => dependency_graph' = dependency_graph]_vars

\* C5 witness: a finished crawl whose first root could not be stat'ed and
\* whose second root held a dangling link, an unreadable directory and an
\* unreadable file, and which still merged nodes and visited the entry that
\* comes last in the directory.
C5_Witness ==
    /\ pc = "crawled"
    /\ root_directories = <<N_nx, N_p>>
    /\ dependency_graph # <<>>
    /\ \A n \in {N_k, N_q, N_u_c, N_c} :
          \E i \in Done("crawlDir") : log[i].path = JoinPath(N_p, n)

TransientFailures ==
    {i \in Done("malloc_failed") : log[i].layer \in {"MODULE", "STRUCT"}}

\* C6: when the allocation of a transient record fails, nothing more is done
\* for that file (the next thing the crawl does is to visit the next path),
\* every node merged before is in the graph as it was merged, and the
\* finished crawl has visited every path a crawl without the failure visits.
C6_AllocationFailureStopsFileOnly ==
    \A i \in TransientFailures :
        /\ i < Len(log) => log[i + 1].op = "crawlDir"
        /\ \A j \in Merges :
              j < i => \E k \in 1..Len(dependency_graph) :
                          dependency_graph[k] =
                              [create_dependency_from_extracted(
                                   ExtractedDependency(log[j].path, log[j].target,
                                                       log[j].layer), log[j].id)
                               EXCEPT !.methods = dependency_graph[k].methods]
        /\ pc = "crawled" =>
              Pairs(SelectSeq(log, IsSoundVisit)) = RootsWithoutFailing(1)

\* C6 witness: a finished crawl in which the allocation of a transient
\* record failed after nodes had been merged, and a later file was merged.
C6_Witness ==
    /\ pc = "crawled"
    /\ \E i \in TransientFailures :
          /\ \E j \in Merges : j < i /\ log[j].path # log[i].path
          /\ \E j \in Merges : j < i /\ log[j].path = log[i].path
          /\ \E j \in Merges : j > i

C7_Extensions ==
    { <<"t", "x", "t">>, <<"m", "d">>, <<"j", "s", "o", "n">>, <<"y", "m", "l">>,
      <<"y", "a", "m", "l">>, <<"x", "m", "l">>, <<"c", "s", "v">>, <<"l", "o", "g">>,
      <<"l", "i", "c", "e", "n", "s", "e">>,
      <<"g", "i", "t", "i", "g", "n", "o", "r", "e">>, <<"l", "o", "c", "k">> }

\* The final extension of the path is, whatever its case, a refused one.
HasRefusedExtension(path) ==
    \E k \in 1..Len(path) :
        /\ path[k] = "."
        /\ \A j \in (k + 1)..Len(path) : path[j] # "."
        /\ LowerStr(SubSeq(path, k + 1, Len(path))) \in C7_Extensions

\* C7: no file with a refused final extension is opened or handed to an
\* extractor, and no node of the graph has such a file as its source.
C7_RefusedExtensionsNeverProcessed ==
    /\ \A i \in 1..Len(log) :
          log[i].op \in {"fopen", "processLayer", "analyzeMethod", "merge",
                         "graphMethods", "malloc_failed"}
            => ~HasRefusedExtension(log[i].path)
    /\ \A k \in 1..Len(dependency_graph) :
          ~HasRefusedExtension(dependency_graph[k].source)

\* C7 witness: the crawl has visited the directory's .JSON file and its C
\* file, and the graph holds nodes.
C7_Witness ==
    /\ pc = "crawled"
    /\ \E i \in Done("crawlDir") : log[i].path = JoinPath(N_p, N_d_JSON)
    /\ \E i \in Done("processLayer") : log[i].path = JoinPath(N_p, N_a_c)
    /\ dependency_graph # <<>>

C8_Names ==
    { <<"n", "o", "d", "e", "_", "m", "o", "d", "u", "l", "e", "s">>,
      <<".", "g", "i", "t">>, <<"b", "u", "i", "l", "d">>, <<"d", "i", "s", "t">>,
      <<"t", "a", "r", "g", "e", "t">>, <<"v", "e", "n", "d", "o", "r">> }

\* The last component of a path; slashes at its end are not part of it.
RECURSIVE LastComponent(_)
LastComponent(path) ==
    LET ks == {k \in 1..Len(path) : path[k] = "/"}
    IN  IF ks = {} THEN path
        ELSE IF path[Len(path)] = "/" THEN LastComponent(SubSeq(path, 1, Len(path) - 1))
        ELSE SubSeq(path, (CHOOSE k \in ks : \A j \in ks : j <= k) + 1, Len(path))

\* The directories crawlDir reached on its way to a visited path: the
\* prefixes of the path that end before a '/', from the root of the walk on.
DirectoriesAbove(e) ==
    {SubSeq(e.path, 1, k - 1) :
        k \in {k \in 1..Len(e.path) :
                 e.path[k] = "/" /\ k >= Len(root_directories[e.root])}}

VisitsOf(r, path) ==
    {j \in Done("crawlDir") : log[j].root = r /\ log[j].path = path}

\* C8: nothing beneath a directory whose last component is a refused name
\* is visited; of a walked directory no entry is visited twice and no hidden
\* entry is visited, and when the crawl is finished every other entry has
\* been visited once.
C8_RefusedAndHiddenNeverVisited ==
    /\ \A i \in Done("crawlDir") :
          \A d \in DirectoriesAbove(log[i]) : LastComponent(d) \notin C8_Names
    /\ \A i \in Done("walk") :
          LET names == readdir_names(log[i].path)
          IN  \A k \in 1..Len(names) :
                 LET n == Cardinality(VisitsOf(log[i].root,
                                               JoinPath(log[i].path, names[k])))
                 IN  /\ n <= 1
                     /\ names[k][1] = "." => n = 0
                     /\ (pc = "crawled" /\ names[k][1] # ".") => n = 1

\* The paths crawlDir was called with on its way to a visited path.
PathsAbove(e) ==
    {SubSeq(e.path, 1, k - 1) :
        k \in {k \in 1..Len(e.path) :
                 e.path[k] = "/" /\ k > Len(root_directories[e.root])}}

\* What crawlDir does refuse is a path that is a refused name or ends in '/'
\* and a refused name: nothing beneath such a path is visited, and the
\* entries of a walked directory are visited once, the hidden ones never.
RefusedBySuffixAndHiddenNeverVisited ==
    /\ \A i \in Done("crawlDir") :
          \A d \in PathsAbove(log[i]) :
             d \notin C8_Names
             /\ \A n \in C8_Names :
                   Len(d) > Len(n)
                     => SubSeq(d, Len(d) - Len(n), Len(d)) # <<"/">> \o n
    /\ \A i \in Done("walk") :
          LET names == readdir_names(log[i].path)
          IN  \A k \in 1..Len(names) :
                 LET n == Cardinality(VisitsOf(log[i].root,
                                               JoinPath(log[i].path, names[k])))
                 IN  /\ n <= 1
                     /\ names[k][1] = "." => n = 0
                     /\ (pc = "crawled" /\ names[k][1] # ".") => n = 1

C9_Languages ==
    [e \in { <<"r", "s">>, <<"c">>, <<"h">>, <<"c", "p", "p">>, <<"h", "p", "p">>,
             <<"j", "s">>, <<"j", "s", "x">>, <<"t", "s">>, <<"t", "s", "x">>,
             <<"g", "o">>, <<"p", "y">>, <<"j", "a", "v", "a">>, <<"p", "h", "p">>,
             <<"r", "b">> } |->
        CASE e = <<"r", "s">> -> "LANG_RUST"
          [] e \in { <<"c">>, <<"h">>, <<"c", "p", "p">>, <<"h", "p", "p">> } -> "LANG_C"
          [] e \in { <<"j", "s">>, <<"j", "s", "x">>, <<"t", "s">>, <<"t", "s", "x">> }
               -> "LANG_JAVASCRIPT"
          [] e = <<"g", "o">> -> "LANG_GO"
          [] e = <<"p", "y">> -> "LANG_PYTHON"
          [] e = <<"j", "a", "v", "a">> -> "LANG_JAVA"
          [] e = <<"p", "h", "p">> -> "LANG_PHP"
          [] e = <<"r", "b">> -> "LANG_RUBY"]

\* The places of the '.' characters of a name.
Dots(name) == {k \in 1..Len(name) : name[k] = "."}

\* The text after the last '.' of a name that has one, in lower case.
LowerExtension(name) ==
    LowerStr(SubSeq(name, (CHOOSE k \in Dots(name) : \A j \in Dots(name) : j <= k) + 1,
                    Len(name)))

\* C9: what languageType returns is the language the table gives for the
\* text after the last '.' of the name, whatever its case, and LANG_RUST for a
\* text the table does not have, for a name without '.' and for NULL; it is
\* always one of the eight languages.
C9_LanguageFromExtension ==
    pc = "classified" =>
        /\ lang_type \in LanguageTypes
        /\ lang_type =
             IF filename = NULL \/ Dots(filename) = {} THEN "LANG_RUST"
             ELSE IF LowerExtension(filename) \in DOMAIN C9_Languages
             THEN C9_Languages[LowerExtension(filename)]
             ELSE "LANG_RUST"

\* C9 witness: the call has returned LANG_JAVA for a name whose extension is
\* written jaVA.
C9_Witness ==
    /\ pc = "classified"
    /\ filename = <<"a", ".", "b", ".", "j", "a", "V", "A">>
    /\ lang_type = "LANG_JAVA"

\* C10: within the walk of one root no directory is descended into twice.
C10_NoDirectoryWalkedTwice ==
    \A i, j \in Done("walk") :
        (i # j /\ log[i].root = log[j].root) => log[i].id # log[j].id

\* The graph a crawl without allocation failures builds from the files of a
\* walk, processed in order.
RECURSIVE GraphOfWalk(_, _, _, _)
GraphOfWalk(visits, k, graph, id) ==
    IF k > Len(visits) THEN graph
    ELSE IF IsOpenable(visits[k])
    THEN LET w == processFile(Work(graph, id, <<>>, visits[k].root), visits[k].path, 0)
         IN  GraphOfWalk(visits, k + 1, w.graph, w.nextId)
    ELSE GraphOfWalk(visits, k + 1, graph, id)

\* How many directories lie between a visited path and its root.
DepthBelowRoot(v) == Cardinality(DirectoriesAbove(v))

MatchingRecords ==
    {k \in 1..Len(type_deps) :
        /\ type_deps[k].target # NULL
        /\ curr_struct.given # NULL
        /\ strstr(curr_struct.given, type_deps[k].target)}

\* C12: after a pass in which no allocation failed and some record of the
\* file a.e matched, the Structure's text is "a.e:" followed by the text it
\* had, however many records matched.
C12_ResolverStampsOnce ==
    (/\ pc = "resolved"
     /\ ~curr_struct.null
     /\ MatchingRecords # {}
     /\ \A k \in 1..Len(type_deps) : type_deps[k].file_path = N_a_e)
      => curr_struct.dependencies = N_a_e \o <<":">> \o curr_struct.given

\* A pass with one matching record stamps the text once.
OneMatchStampsOnce ==
    (/\ pc = "resolved"
     /\ ~curr_struct.null
     /\ Cardinality(MatchingRecords) = 1
     /\ \A k \in 1..Len(type_deps) : type_deps[k].file_path = N_a_e)
      => curr_struct.dependencies = N_a_e \o <<":">> \o curr_struct.given

\* C13: every node has one of the three levels; the node a graphMethods
\* merge made has level METHOD and holds a Method sequence that is not
\* empty, as every METHOD node does; a MODULE or STRUCT node holds none.
C13_LevelMatchesRecord ==
    /\ \A k \in 1..Len(dependency_graph) :
          LET n == dependency_graph[k]
          IN  /\ n.level \in {"MODULE", "STRUCT", "METHOD"}
              /\ n.level = "METHOD" => n.methods # NoMethods /\ n.methods.shape # <<>>
              /\ n.level \in {"MODULE", "STRUCT"} => n.methods = NoMethods
    /\ \A i \in Done("graphMethods") :
          \E k \in 1..Len(dependency_graph) :
             /\ dependency_graph[k].id = log[i].id
             /\ dependency_graph[k].level = "METHOD"
             /\ dependency_graph[k].methods.shape # <<>>
    /\ \A i \in Done("merge") :
          \E k \in 1..Len(dependency_graph) :
             /\ dependency_graph[k].id = log[i].id
             /\ dependency_graph[k].level = log[i].layer
             /\ log[i].layer \in {"MODULE", "STRUCT"}

\* C13 witness: a graph with a node of each level, after a file in which
\* the method extractor found nothing was processed.
C13_Witness ==
    /\ \A l \in {"MODULE", "STRUCT", "METHOD"} : NodesOfLevel(l) # {}
    /\ \E i \in Done("processLayer") : log[i].path = JoinPath(JoinPath(N_p, N_s), N_e_h)

\* The places of released where the pattern cache, and where a graph node,
\* was released.
PatternCacheReleases == {i \in 1..Len(released) : released[i][1] = "pattern_cache"}

NodeReleases == {i \in 1..Len(released) : released[i][1] = "Dependency"}

\* C14 as stated: the pattern cache is released after every node of the
\* graph has been released.
C14_GraphReleasedBeforePatterns ==
    pc = "freed" =>
        \A i \in PatternCacheReleases : \A j \in NodeReleases : j < i

\* C14 amended: freeCrawler releases the pattern cache first, before
\* anything else, and every node of the graph after it.
C14_PatternsReleasedBeforeGraph ==
    /\ pc # "freed" => PatternCacheReleases = {} /\ NodeReleases = {}
    /\ pc = "freed" =>
          /\ PatternCacheReleases = {1}
          /\ \A j \in NodeReleases : j > 1
          /\ \A k \in 1..Len(dependency_graph) :
                \E j \in NodeReleases : released[j][2] = dependency_graph[k].id

\* C14 witness: the teardown of a graph of several nodes is done.
C14_Witness ==
    /\ pc = "freed"
    /\ Len(dependency_graph) >= 2
    /\ Cardinality(NodeReleases) = Len(dependency_graph)

\* C15: once create_crawler has failed, main holds no crawler, nothing is
\* crawled, opened or merged, and the process never ends with status 0; when
\* the pattern cache, the crawler or its root_directories could not be set
\* up, main exits with status 1.
C15_FailedStartupCrawlsNothing ==
    process.failure # "none" =>
        /\ process.crawler # "created"
        /\ pc \in {"create_failed", "exited"}
        /\ log = <<>>
        /\ dependency_graph = <<>>
        /\ stack = <<>>
        /\ pc = "exited" =>
              /\ process.status \in {"1", "SIGSEGV"}
              /\ process.failure \in {"crawler", "initPatternCache", "root_directories"}
                    => process.status = "1"

\* C15 witness: main has exited after initPatternCache failed.
C15_Witness ==
    /\ pc = "exited"
    /\ process.failure = "initPatternCache"
    /\ process.status = "1"

\* C16: exportDeps produces the DOT serialization for "dot", the JSON
\* serialization for "json" and the terminal view for every other format.
C16_ExportDepsByFormat ==
    pc = "exported" =>
        output.by = (IF output_format = "dot" THEN "dot"
                     ELSE IF output_format = "json" THEN "json"
                     ELSE "printDependencies")

C17_FirstLine ==
    <<"d", "i", "g", "r", "a", "p", "h", " ", "D", "e", "p", "e", "n", "d", "e", "n",
      "c", "i", "e", "s", " ", "{">>

\* The line of a DOT file for one relationship.
C17_Line(rel) ==
    <<" ", " ", "\"">> \o rel.from \o <<"\"", " ", "-", ">", " ", "\"">> \o rel.to
    \o <<"\"", " ", "[", "l", "a", "b", "e", "l", "=", "\"">> \o rel.relationship_type
    \o <<"\"", "]", ";">>

\* The text that consists of these lines, each ended by a newline.
RECURSIVE TextOfLines(_, _)
TextOfLines(lines, k) ==
    IF k > Len(lines) THEN <<>>
    ELSE lines[k] \o <<"\n">> \o TextOfLines(lines, k + 1)

C17_SingleExample ==
    <<"d", "i", "g", "r", "a", "p", "h", " ", "D", "e", "p", "e", "n", "d", "e", "n",
      "c", "i", "e", "s", " ", "{", "\n", " ", " ", "\"", "A", "\"", " ", "-", ">",
      " ", "\"", "B", "\"", " ", "[", "l", "a", "b", "e", "l", "=", "\"", "i", "m",
      "p", "o", "r", "t", "s", "\"", "]", ";", "\n", "}", "\n">>

\* C17: the DOT export of a relationship list is the line
\* 'digraph Dependencies {', one line per relationship in list order, and
\* the line '}', and nothing else; for the single relationship (A, B,
\* imports) it is exactly the text of the example.
C17_DotExportExact ==
    (pc = "graph_exported" /\ output_format = "dot" /\ ~result_graph.null) =>
        LET rels == result_graph.relationships
        IN  /\ output.text =
                 TextOfLines(<<C17_FirstLine>>
                             \o [i \in 1..Len(rels) |-> C17_Line(rels[i])]
                             \o << <<"}">> >>, 1)
            /\ rels = <<Relationship(N_A, N_B, S_imports, "MODULE")>>
                  => output.text = C17_SingleExample

\* C17 witness: the DOT export of the single relationship (A, B, imports)
\* is written.
C17_Witness ==
    /\ pc = "graph_exported"
    /\ output_format = "dot"
    /\ result_graph.relationships = <<Relationship(N_A, N_B, S_imports, "MODULE")>>
    /\ output.text = C17_SingleExample

\* C18: every relationship create_dependency_graph makes has one of the
\* three kinds, and its kind is imports exactly when its layer is MODULE,
\* inherits exactly when it is STRUCT, calls exactly when it is METHOD.
C18_KindFixedByLayer ==
    \A i \in 1..Len(result_graph.relationships) :
        LET r == result_graph.relationships[i]
        IN  /\ r.relationship_type \in {S_imports, S_inherits, S_calls}
            /\ r.layer \in {"MODULE", "STRUCT", "METHOD"}
            /\ r.relationship_type = S_imports <=> r.layer = "MODULE"
            /\ r.relationship_type = S_inherits <=> r.layer = "STRUCT"
            /\ r.relationship_type = S_calls <=> r.layer = "METHOD"

\* C18 witness: a relationship graph with a relationship of each layer.
C18_Witness ==
    /\ pc = "graphed"
    /\ \A l \in {"MODULE", "STRUCT", "METHOD"} :
          \E i \in 1..Len(result_graph.relationships) :
             result_graph.relationships[i].layer = l

\* The three extractors find nothing in the file.
EmptyExtraction(path) ==
    LET st == stat(path)
        content == FS[st.ino].content
    IN  /\ st.ok
        /\ S_ISREG(st)
        /\ analyzeModule(content) = <<>>
        /\ analyze_structure(content, path) = <<>>
        /\ analyzeMethod(path, content) = <<>>

EmptyProcessings ==
    {i \in Done("processLayer") : EmptyExtraction(log[i].path)}

\* C19: the step that processes a file in which the three extractors find
\* nothing reports no error and leaves the graph exactly as it was; the
\* next thing the crawl does is to visit the next path, no node ever has
\* the file as its source, and the finished crawl has visited every path.
C19_EmptyExtractionLeavesGraph ==
    /\ [](\A i \in EmptyProcessings :
              /\ i < Len(log) => log[i + 1].op = "crawlDir"
              /\ \A k \in 1..Len(dependency_graph) :
                    dependency_graph[k].source # log[i].path
              /\ pc = "crawled" =>
                    Pairs(SelectSeq(log, IsSoundVisit)) = RootsWithoutFailing(1))
    /\ [][(/\ Len(log') > Len(log)
           /\ \E k \in (Len(log) + 1)..Len(log') :
                 log'[k].op = "processLayer" /\ EmptyExtraction(log'[k].path))
          => /\ dependency_graph' = dependency_graph
             /\ nextId' = nextId
             /\ alloc_failures' = alloc_failures
             /\ log'[Len(log')].op = "processLayer"
             /\ pc' = "crawl"]_vars

\* C19 witness: a finished crawl that processed such a file with every
\* layer analysed, after nodes had been merged, and visited paths after it.
C19_Witness ==
    /\ pc = "crawled"
    /\ analysis_config.analyzeModules
    /\ analysis_config.analyze_structures
    /\ analysis_config.analyzeMethods
    /\ \E i \in EmptyProcessings :
          /\ \E j \in Merges : j < i
          /\ \E j \in Done("crawlDir") : j > i

\* The nodes of the list before are in the list after, each as it was and
\* in the order they had.
KeepsNodes(before, after) ==
    LET WasThere(n) == \E k \in 1..Len(before) : before[k].id = n.id
    IN  SelectSeq(after, WasThere) = before

\* C20: until freeCrawler runs, every node that was merged is in the list
\* that starts at the graph head, with the source, target and layer it was
\* merged with, and no step of the crawl removes, changes or reorders a
\* node of the graph.
C20_GraphOnlyGrows ==
    /\ [](pc # "freed" =>
            \A j \in Merges :
               \E k \in 1..Len(dependency_graph) :
                  /\ dependency_graph[k].id = log[j].id
                  /\ dependency_graph[k].source = log[j].path
                  /\ dependency_graph[k].target = log[j].target
                  /\ dependency_graph[k].level = log[j].layer)
    /\ [][pc = "crawl" =>
            /\ KeepsNodes(dependency_graph, dependency_graph')
            /\ Len(dependency_graph') - Len(dependency_graph)
                 = Cardinality({k \in (Len(log) + 1)..Len(log') :
                                   log'[k].op \in {"merge", "graphMethods"}})]_vars

\* C20 witness: a finished crawl in which nodes of every layer were merged
\* from several files, a graphMethods merge and a MODULE merge among them
\* that came after earlier merges.
C20_Witness ==
    /\ pc = "crawled"
    /\ Len(dependency_graph) >= 5
    /\ \E i \in Done("graphMethods"), j \in Done("merge") :
          /\ i < j
          /\ log[i].path # log[j].path
          /\ \E k \in Merges : k < i
    /\ \A l \in {"MODULE", "STRUCT", "METHOD"} :
          \E k \in 1..Len(dependency_graph) : dependency_graph[k].level = l

\* The processLayer call during which entry j of the log was made (0: none).
CallOf(j) ==
    LET before == {i \in Done("processLayer") : i < j}
    IN  IF before = {} THEN 0
        ELSE CHOOSE i \in before : \A i2 \in before : i2 <= i

\* The place of a layer in the order processLayer analyses them.
LayerRank(layer) ==
    CASE layer = "MODULE" -> 1
      [] layer = "STRUCT" -> 2
      [] layer = "METHOD" -> 3
      [] OTHER -> 0

\* C21: the roots are visited in the order given; every merge is made
\* during the processLayer call of its own file, before the next path is
\* visited; within one call the MODULE merges come before the STRUCT merge
\* and that before the METHOD merge; the finished crawl has visited the
\* paths in depth-first order.
C21_SynchronousDepthFirst ==
    /\ \A i, j \in Done("crawlDir") : i < j => log[i].root <= log[j].root
    /\ \A r \in 1..root_i :
          \E i \in Done("crawlDir") :
             /\ log[i].root = r
             /\ log[i].path = root_directories[r]
             /\ \A j \in Done("crawlDir") : j < i => log[j].root < r
    /\ \A j \in Merges \cup Done("analyzeMethod") :
          LET c == CallOf(j)
          IN  /\ c > 0
              /\ log[c].path = log[j].path
              /\ log[c].root = log[j].root
              /\ \A k \in c..j : log[k].op \notin {"crawlDir", "fopen", "walk"}
    /\ \A j, k \in Merges :
          (j < k /\ CallOf(j) = CallOf(k))
             => LayerRank(log[j].layer) <= LayerRank(log[k].layer)
    /\ pc = "crawled" => Pairs(SelectSeq(log, IsSoundVisit)) = RootsWithoutFailing(1)

\* C21 witness: a finished crawl of two roots that merged nodes of all three
\* layers from one file, merged nodes from a later file of the same root,
\* and merged nodes under the second root.
C21_Witness ==
    /\ pc = "crawled"
    /\ Len(root_directories) = 2
    /\ \E j1, j2, j3 \in Merges :
          /\ CallOf(j1) = CallOf(j2) /\ CallOf(j2) = CallOf(j3)
          /\ log[j1].layer = "MODULE" /\ log[j2].layer = "STRUCT"
          /\ log[j3].layer = "METHOD"
          /\ \E k \in Merges : k > j3 /\ log[k].root = log[j3].root
    /\ \E k \in Merges : log[k].root = 2

\* C22: the graph holds at most one METHOD node and at most one STRUCT node
\* for one source file path.
C22_OneNodePerFileAndLayer ==
    \A k1, k2 \in 1..Len(dependency_graph) :
        (/\ k1 # k2
         /\ dependency_graph[k1].level \in {"STRUCT", "METHOD"}
         /\ dependency_graph[k1].level = dependency_graph[k2].level)
            => dependency_graph[k1].source # dependency_graph[k2].source

\* Within the walk of one root no two nodes of one of these layers have the
\* same source.
OneNodePerFileLayerAndRoot ==
    \A j1, j2 \in Merges :
        (/\ j1 # j2
         /\ log[j1].root = log[j2].root
         /\ log[j1].layer \in {"STRUCT", "METHOD"}
         /\ log[j1].layer = log[j2].layer)
            => log[j1].path # log[j2].path

\* The base name of the path has no '.'.
WithoutExtension(path) == strchr(LastComponent(path), ".") = 0

\* C23: no file whose base name has no '.' is opened or handed to the
\* extractors, whatever directories lead to it.
C23_ExtensionlessNeverProcessed ==
    \A i \in Done("fopen") \cup Done("processLayer") \cup Merges :
        ~WithoutExtension(log[i].path)

\* A file whose whole path has no '.' is never opened.
UndottedPathNeverProcessed ==
    \A i \in Done("crawlDir") :
        (S_ISREG(stat(log[i].path)) /\ strchr(log[i].path, ".") = 0)
            => \A j \in Done("fopen") \cup Done("processLayer") \cup Merges :
                  ~(j > i /\ log[j].path = log[i].path /\ log[j].root = log[i].root)

\* C24: the number of relationships create_dependency_graph stores never
\* exceeds the size of the array it allocated, dep_count * MAX_DEPENDENCIES.
C24_RelationshipCountWithinArray ==
    /\ pc # "crashed"
    /\ pc = "graphed" =>
          Len(result_graph.relationships) <= Len(extracted_deps) * MAX_DEPENDENCIES

\* With at most MAX_DEPENDENCIES relationships in every record the array
\* is large enough.
SmallRecordsWithinArray ==
    (/\ pc = "graphed"
     /\ \A i \in 1..Len(extracted_deps) :
           Len(RelationshipsFrom(<<extracted_deps[i]>>, 1)) <= MAX_DEPENDENCIES)
        => Len(result_graph.relationships) <= Len(extracted_deps) * MAX_DEPENDENCIES

\* C25: the cleanup of a create_crawler that failed in its root loop reads
\* assigned fields only, and releases the roots copied so far, the root
\* array and the crawler, and nothing else.
C25_CleanupReadsAssignedFieldsOnly ==
    /\ pc # "exited"
    /\ \A k \in 1..Len(accesses) : accesses[k] \in initialized
    /\ pc = "create_failed" =>
          \A k \in 1..Len(released) :
             released[k][1] = "root_directory" => released[k][4] <= root_i

\* The crawler create_crawler returns has every field assigned.
CreatedCrawlerFullyAssigned ==
    pc = "created" => initialized = CrawlerFields(Len(root_directories))

\* A failed root loop frees the pointer of every root, copied or not.
FailedCleanupFreesEveryRoot ==
    pc = "create_failed" =>
        \A i \in 1..Len(root_directories) :
            \E k \in 1..Len(released) : released[k] = Alloc("root_directory", 0, <<>>, i)

\* The graph nodes that hold the Method sequence ext.
OwnersOf(ext) ==
    {k \in 1..Len(dependency_graph) : dependency_graph[k].methods.ext = ext}

\* The Methods of the sequence ext have been released.
IsReleased(ext) ==
    \E j \in 1..Len(released) : released[j][1] = "Method" /\ released[j][2] = ext

\* C26: every Method sequence the extractor returned is owned by exactly one
\* node of the graph or has been released.
C26_NoOrphanedMethods ==
    \A i \in Done("analyzeMethod") :
        \/ Cardinality(OwnersOf(log[i].id)) = 1
        \/ IsReleased(log[i].id)

\* A sequence graphMethods made a node for is owned by that node or released.
MergedMethodsNeverOrphaned ==
    \A i \in Done("analyzeMethod") :
        (i < Len(log) /\ log[i + 1].op = "graphMethods")
            => \/ Cardinality(OwnersOf(log[i].id)) = 1
               \/ IsReleased(log[i].id)

\* Some module record of the file has a target that is a substring of text.
HasMatchingTarget(text) ==
    \E k \in 1..Len(type_deps) :
        type_deps[k].target # NULL /\ strstr(text, type_deps[k].target)

\* C27: the resolver loop leaves the number and order of the Structures,
\* their names and their Method lists as they were, and leaves the
\* dependency text of a Structure as it was when the text is absent or no
\* module target of the file is a substring of it.
C27_ResolverFrame ==
    [][pc = "resolve_all" =>
          /\ Len(struct_dep') = Len(struct_dep)
          /\ \A k \in 1..Len(struct_dep) :
                /\ struct_dep'[k].name = struct_dep[k].name
                /\ struct_dep'[k].methods = struct_dep[k].methods
                /\ (\/ struct_dep[k].dependencies = NULL
                    \/ ~HasMatchingTarget(struct_dep[k].dependencies))
                      => struct_dep'[k].dependencies = struct_dep[k].dependencies]_vars

\* C27 witness: the loop has run over two Structures with module records
\* that have targets; it stamped the text of the first and left the text of
\* the second, which holds no target, as it was.
C27_Witness ==
    /\ pc = "resolved_all"
    /\ Len(struct_dep) = 2
    /\ \E k \in 1..Len(type_deps) : type_deps[k].target # NULL
    /\ struct_dep[1].dependencies = N_a_e \o <<":">> \o N_Base
    /\ struct_dep[2].dependencies = N_Q
    /\ ~HasMatchingTarget(N_Q)

IsProcessing(e) == e.op = "processLayer"

IsModuleMerge(e) == e.op = "merge" /\ e.layer = "MODULE"

IsStructMerge(e) == e.op = "merge" /\ e.layer = "STRUCT"

IsResolve(e) == e.op = "resolve"

IsMethodMerge(e) == e.op = "graphMethods"

ContentOf(path) == FS[stat(path).ino].content

\* What a crawl with every layer on merges for the MODULE layer from the
\* files processed: a node per import of each file, in order.
RECURSIVE AllOnModules(_, _)
AllOnModules(files, k) ==
    IF k > Len(files) THEN <<>>
    ELSE LET ms == analyzeModule(ContentOf(files[k].path))
         IN  [j \in 1..Len(ms) |-> [path |-> files[k].path, target |-> ms[j].target]]
             \o AllOnModules(files, k + 1)

\* What it merges for the STRUCT layer: a node per file with structures,
\* whose dependency texts are stamped from the imports of the file.
RECURSIVE AllOnStructures(_, _)
AllOnStructures(files, k) ==
    IF k > Len(files) THEN <<>>
    ELSE LET c == ContentOf(files[k].path)
             ss == analyze_structure(c, files[k].path)
         IN  (IF ss = <<>> THEN <<>>
              ELSE <<[path |-> files[k].path,
                      texts |-> ResolvedTexts(ss, analyzeModule(c))]>>)
             \o AllOnStructures(files, k + 1)

\* What it merges for the METHOD layer: a node per file with methods,
\* holding the extracted Method sequence.
RECURSIVE AllOnMethods(_, _)
AllOnMethods(files, k) ==
    IF k > Len(files) THEN <<>>
    ELSE LET shape == analyzeMethod(files[k].path, ContentOf(files[k].path))
         IN  (IF shape = <<>> THEN <<>>
              ELSE <<[path |-> files[k].path, shape |-> shape]>>)
             \o AllOnMethods(files, k + 1)

\* The node of the graph with identity id.
NodeOf(id) ==
    dependency_graph[CHOOSE k \in 1..Len(dependency_graph) : dependency_graph[k].id = id]

MergedModules ==
    LET es == SelectSeq(log, IsModuleMerge)
    IN  [j \in 1..Len(es) |-> [path |-> NodeOf(es[j].id).source,
                               target |-> NodeOf(es[j].id).target]]

MergedStructures ==
    LET es == SelectSeq(log, IsStructMerge)
        rs == SelectSeq(log, IsResolve)
    IN  [j \in 1..Len(es) |-> [path |-> NodeOf(es[j].id).source, texts |-> rs[j].target]]

MergedMethods ==
    LET es == SelectSeq(log, IsMethodMerge)
    IN  [j \in 1..Len(es) |-> [path |-> NodeOf(es[j].id).source,
                               shape |-> NodeOf(es[j].id).methods.shape]]

\* C28: in a finished crawl without allocation failures the graph holds no
\* node of a layer that is switched off, and for a layer that is switched
\* on exactly the nodes (and, for the STRUCT layer, the stamped dependency
\* texts) a crawl with every layer on makes for that layer, whatever the
\* other two switches are.
C28_LayerSwitchesIndependent ==
    (pc = "crawled" /\ alloc_failures = 0) =>
        LET files == SelectSeq(log, IsProcessing)
        IN  /\ Pairs(files) = SelectSeq(RootsWithoutFailing(1), IsOpenable)
            /\ Cardinality(NodesOfLevel("MODULE")) = Len(SelectSeq(log, IsModuleMerge))
            /\ Cardinality(NodesOfLevel("STRUCT")) = Len(SelectSeq(log, IsStructMerge))
            /\ Cardinality(NodesOfLevel("METHOD")) = Len(SelectSeq(log, IsMethodMerge))
            /\ Len(SelectSeq(log, IsResolve)) = Len(SelectSeq(log, IsStructMerge))
            /\ MergedModules = IF analysis_config.analyzeModules
                               THEN AllOnModules(files, 1) ELSE <<>>
            /\ MergedStructures = IF analysis_config.analyze_structures
                                  THEN AllOnStructures(files, 1) ELSE <<>>
            /\ MergedMethods = IF analysis_config.analyzeMethods
                               THEN AllOnMethods(files, 1) ELSE <<>>

\* C28 witness: a finished crawl with the module layer off and the other two
\* on, which merged STRUCT and METHOD nodes and stamped a dependency text.
C28_Witness ==
    /\ pc = "crawled"
    /\ alloc_failures = 0
    /\ ~analysis_config.analyzeModules
    /\ analysis_config.analyze_structures
    /\ analysis_config.analyzeMethods
    /\ NodesOfLevel("MODULE") = {}
    /\ NodesOfLevel("STRUCT") # {}
    /\ Cardinality(NodesOfLevel("METHOD")) >= 2
    /\ \E i \in Done("resolve") :
          log[i].target # [k \in 1..Len(log[i].target) |->
                              analyze_structure(ContentOf(log[i].path), log[i].path)[k].dependencies]
====
